---- MODULE Spec2Model ----
(***************************************************************************)
(* js-base-error: the error wrappers (createErrorLike, BaseError,          *)
(* ErrorLikeCollection) and the two renderers (errorToString,              *)
(* errorToJsonLike) of src/src/index.ts, over a heap of JavaScript         *)
(* objects.                                                                *)
(*                                                                         *)
(* A JavaScript string is a sequence of atoms (short pieces of text); the  *)
(* string is their concatenation.  "\n" is an atom of its own, so that a   *)
(* line of the output starts at index 1 or right after a "\n" atom.        *)
(***************************************************************************)
EXTENDS Integers, Sequences, FiniteSets, TLC

VARIABLES heap, ret

vars == <<heap, ret>>

-----------------------------------------------------------------------------
(* Bounds *)

\* Number of objects of a drawn heap.
MaxObjs == 2

\* Number of objects of a drawn graph of causes.
MaxChain == 3

\* Number of own properties of a drawn detail.
MaxFields == 3

\* Number of objects the heap holds after calls that allocate.
MaxHeap == 3

\* Frames the call stack holds before the engine raises RangeError.
StackLimit == 4

\* The most objects a heap of collections grows to.
MaxColl == 6

\* The most elements a collection grows to.
MaxLen == 3

-----------------------------------------------------------------------------
(* JavaScript values.  t is the result of typeof, except "null" for null   *)
(* and "map"/"array" for the fresh objects and arrays a JSON render builds.*)
(* s holds the text of a string, the description of a symbol, the          *)
(* behaviour of a function when called; n holds a number, a boolean (0/1)  *)
(* or the heap address of an object; kids holds the entries of a map.      *)

Val(t, s, n) == [t |-> t, s |-> s, n |-> n, kids |-> <<>>]

Undef == Val("undefined", <<>>, 0)

Null == Val("null", <<>>, 0)

Text(atoms) == Val("string", atoms, 0)

Str(a) == Text(IF a = "" THEN <<>> ELSE <<a>>)

Num(k) == Val("number", <<>>, k)

\* NaN, Infinity, 1.5: numbers that are not integers.
NumX(a) == Val("number", <<a>>, 0)

Bool(b) == Val("boolean", <<>>, IF b THEN 1 ELSE 0)

Sym(d) == Val("symbol", <<d>>, 0)

\* A function value; b is what a call of it does: "throw", "empty" (returns
\* ''), "text" (returns a non-empty string), "undef" (returns undefined).
Fun(b) == Val("function", <<b>>, 0)

\* A function that returns the object at address a.
FunRef(a) == Val("function", <<"ref">>, a)

Ref(a) == Val("object", <<>>, a)

Map(entries) == [t |-> "map", s |-> <<>>, n |-> 0, kids |-> entries]

IsObj(v) == v.t = "object"

IsNullish(v) == v.t \in {"undefined", "null"}

-----------------------------------------------------------------------------
(* Objects.  kind is the prototype chain: "plain" (Object.prototype),      *)
(* "wrapper" (ErrorLikeProto), "error" (Error.prototype), "base" (a        *)
(* subclass of BaseError), "collection" (ErrorLikeCollection.prototype).   *)
(* props are the own properties in the order of Object.keys; get = "throw" *)
(* is an accessor whose getter raises; items and prefix are the elements   *)
(* and the _prefix of a collection.                                        *)

Prop(name, val) == [name |-> name, val |-> val, get |-> "data", enum |-> TRUE]

Hidden(name, val) == [name |-> name, val |-> val, get |-> "data", enum |-> FALSE]

Thrower(name) == [name |-> name, val |-> Undef, get |-> "throw", enum |-> TRUE]

Obj(kind, props) == [kind |-> kind, props |-> props, items |-> <<>>, prefix |-> ""]

Coll(prefix, items) == [kind |-> "collection", props |-> <<>>, items |-> items, prefix |-> prefix]

Addrs(h) == 1..Len(h)

PropNames(o) == {o.props[i].name : i \in 1..Len(o.props)}

PropOf(o, name) == o.props[CHOOSE i \in 1..Len(o.props) : o.props[i].name = name]

-----------------------------------------------------------------------------
(* Property access *)

InSeq(x, sq) == \E i \in 1..Len(sq) : sq[i] = x

\* The outcome of a call: the value returned, the visited set it leaves
\* behind, whether it raised instead of returning, and how many times a
\* renderer of one object (_errorDetailToList, _nativeErrorToString and
\* their JSON counterparts) was entered.
R(v, seen, ex, n) == [v |-> v, seen |-> seen, ex |-> ex, n |-> n]

Digit(k) == CASE k = 0 -> "0" [] k = 1 -> "1" [] k = 2 -> "2" [] k = 3 -> "3"
              [] k = 4 -> "4" [] k = 5 -> "5" [] k = 6 -> "6" [] k = 7 -> "7"
              [] k = 8 -> "8" [] OTHER -> "9"

RECURSIVE NumStr(_)
NumStr(k) == IF k < 0 THEN "-" \o NumStr(0 - k)
             ELSE IF k < 10 THEN Digit(k)
             ELSE NumStr(k \div 10) \o Digit(k % 10)

\* What the prototype chain answers for a name that is no own property.
Inherited(o, name) ==
    CASE o.kind \in {"error", "base"} /\ name = "name" -> Str("Error")
      [] o.kind \in {"error", "base"} /\ name = "message" -> Str("")
      [] o.kind = "collection" /\ name = "_prefix" -> Str(o.prefix)
      [] o.kind = "collection" /\ name = "length" -> Num(Len(o.items))
      [] o.kind = "collection" /\ (\E i \in 1..Len(o.items) : NumStr(i - 1) = name) ->
           o.items[CHOOSE i \in 1..Len(o.items) : NumStr(i - 1) = name]
      [] OTHER -> Undef

\* Reflect.get(obj, name) and obj[name]: raises for a value that is no
\* object and for an accessor whose getter raises.
GetProp(h, v, name) ==
    IF v.t = "function" THEN R(Undef, {}, FALSE, 0)
    ELSE IF ~IsObj(v) THEN R(Undef, {}, TRUE, 0)
    ELSE LET o == h[v.n] IN
         IF name \in PropNames(o)
         THEN LET p == PropOf(o, name) IN
              IF p.get = "throw" THEN R(Undef, {}, TRUE, 0) ELSE R(p.val, {}, FALSE, 0)
         ELSE R(Inherited(o, name), {}, FALSE, 0)

\* name in obj
HasProp(h, v, name) ==
    /\ IsObj(v)
    /\ \/ name \in PropNames(h[v.n])
       \/ h[v.n].kind \in {"error", "base"} /\ name \in {"name", "message"}

\* Object.keys(obj): the enumerable own properties, the indices of an array first.
ObjectKeys(h, v) ==
    IF ~IsObj(v) THEN <<>>
    ELSE LET o == h[v.n]
             own == SelectSeq(o.props, LAMBDA p : p.enum)
             names == [i \in 1..Len(own) |-> own[i].name]
         IN IF o.kind = "collection"
            THEN [i \in 1..Len(o.items) |-> NumStr(i - 1)] \o <<"_prefix">> \o names
            ELSE names

\* A value used as a condition: null, undefined and '' are falsy.
Truthy(v) == ~IsNullish(v) /\ ~(v.t = "string" /\ v.s = <<>>)

\* String(v) of a primitive.
PrimToText(v) ==
    CASE v.t = "string" -> v.s
      [] v.t = "number" -> IF v.s # <<>> THEN v.s ELSE <<NumStr(v.n)>>
      [] v.t = "boolean" -> IF v.n = 1 THEN <<"true">> ELSE <<"false">>
      [] v.t = "symbol" -> <<"Symbol(" \o v.s[1] \o ")">>
      [] v.t = "function" -> <<"function () {}">>
      [] v.t = "null" -> <<"null">>
      [] OTHER -> <<"undefined">>

\* Calling a function value that sits in a toString or toJSON slot.
CallFun(f) ==
    CASE f.s[1] = "throw" -> R(Undef, {}, TRUE, 0)
      [] f.s[1] = "ref" -> R(Ref(f.n), {}, FALSE, 0)
      [] f.s[1] = "empty" -> R(Str(""), {}, FALSE, 0)
      [] f.s[1] = "text" -> R(Str("obj_str"), {}, FALSE, 0)
      [] OTHER -> R(Undef, {}, FALSE, 0)

RECURSIVE Join(_)
\* Array.prototype.join('\n')
Join(list) == IF list = <<>> THEN <<>>
              ELSE IF Len(list) = 1 THEN list[1]
              ELSE list[1] \o <<"\n">> \o Join(Tail(list))

-----------------------------------------------------------------------------
(* Calls that can re-enter the renderers: a method called on a value the   *)
(* renderer holds (toString, toJSON) and the two dispatch functions.  They *)
(* go through Invoke, which runs the function named by the call record.    *)

RECURSIVE Invoke(_, _)

\* anyValue.toString()
DoToString(h, v, d) ==
    Invoke(h, [f |-> "toString", target |-> <<>>, v |-> v, seen |-> {}, d |-> d])

\* _errorToString(anyValue, seen)
DoErrorToString(h, v, seen, d) ==
    Invoke(h, [f |-> "_errorToString", target |-> <<>>, v |-> v, seen |-> seen, d |-> d])

\* anyValue.toJSON()
DoToJSON(h, v, d) ==
    Invoke(h, [f |-> "toJSON", target |-> <<>>, v |-> v, seen |-> {}, d |-> d])

\* _errorToJsonLike(target, anyValue, seen)
DoErrorToJsonLike(h, target, v, seen, d) ==
    Invoke(h, [f |-> "_errorToJsonLike", target |-> target, v |-> v, seen |-> seen, d |-> d])

-----------------------------------------------------------------------------
(* String rendering *)

\* The known fields, in the order the string renderer emits them.
KnownNames == <<"name", "code", "message", "level">>

\* `${name}: ${value}`
FieldLine(name, text) == <<name, ": ">> \o text

\* The same outcome with another visited set.
WithSeen(r, seen) == R(r.v, seen, r.ex, r.n)

\* try { ... } catch (_) { }: the outcome of a call that raised is null.
NullOnRaise(r) == R(IF r.ex THEN Null ELSE r.v, r.seen, FALSE, r.n)

\* The body of safeAnyToString on the outcome r of anyValue.toString().
StringOrNull(r) ==
    IF ~r.ex /\ r.v.t = "string" /\ r.v.s # <<>>
    THEN R(r.v, {}, FALSE, r.n)
    ELSE R(Null, {}, FALSE, r.n)

\* safeAnyToString: the non-empty string toString() returns, else null.
safeAnyToString(h, v, d) == StringOrNull(DoToString(h, v, d))

\* The body of safeGetStringOf on the outcome g of Reflect.get.
StringOfRead(h, g, d) ==
    IF ~g.ex /\ ~IsNullish(g.v) /\ g.v # Str("")
    THEN safeAnyToString(h, g.v, d)
    ELSE R(Null, {}, FALSE, 0)

\* safeGetStringOf: the property as a string, null when it is absent, empty
\* or unreadable.
safeGetStringOf(h, obj, property, d) == StringOfRead(h, GetProp(h, obj, property), d)

\* if (value) fields.push(`${name}: ${value}`), ahead of the lines the rest
\* of the loop pushes.
PushLine(name, g, rest) ==
    R((IF Truthy(g.v) THEN <<FieldLine(name, g.v.s)>> ELSE <<>>) \o rest.v,
      rest.seen, FALSE, g.n + rest.n)

RECURSIVE KnownFields(_, _, _, _, _)
\* The loop over the known fields: a line for each one that is a key and
\* reads as a non-empty string.
KnownFields(h, detail, keys, names, d) ==
    IF names = <<>> THEN R(<<>>, {}, FALSE, 0)
    ELSE IF ~InSeq(Head(names), keys) THEN KnownFields(h, detail, keys, Tail(names), d)
    ELSE PushLine(Head(names), safeGetStringOf(h, detail, Head(names), d),
                  KnownFields(h, detail, keys, Tail(names), d))

\* CauseOfRead without the test of the visited set: every cause that is an
\* object is rendered.
CauseOfReadUnguarded(h, g, seen, d) ==
    IF g.ex THEN R(Null, seen, FALSE, 0)
    ELSE IF IsObj(g.v) THEN NullOnRaise(DoErrorToString(h, g.v, seen \cup {g.v.n}, d))
    ELSE IF ~IsNullish(g.v) THEN WithSeen(safeAnyToString(h, g.v, d), seen)
    ELSE R(Null, seen, FALSE, 0)

\* The cause read as g: an object is rendered once per visited set, a
\* primitive is converted, a failure gives null.
CauseOfRead(h, g, seen, d) ==
    IF g.ex THEN R(Null, seen, FALSE, 0)
    ELSE IF IsObj(g.v)
         THEN IF g.v.n \in seen THEN R(Null, seen, FALSE, 0)
              ELSE NullOnRaise(DoErrorToString(h, g.v, seen \cup {g.v.n}, d))
    ELSE IF ~IsNullish(g.v) THEN WithSeen(safeAnyToString(h, g.v, d), seen)
    ELSE R(Null, seen, FALSE, 0)

\* The cause of a detail or of a native error.
CauseToString(h, owner, seen, d) == CauseOfRead(h, GetProp(h, owner, "cause"), seen, d)

RECURSIVE RestFields(_, _, _, _, _)
\* RestOfRead without the try around the read: a getter that raises ends the
\* loop over the remaining keys.
RestOfReadAbort(h, detail, names, seen, d, g) ==
    IF g.ex THEN R(<<>>, seen, FALSE, 0)
    ELSE PushLine(Head(names),
                  IF ~IsNullish(g.v) THEN safeAnyToString(h, g.v, d) ELSE R(Null, {}, FALSE, 0),
                  RestFields(h, detail, Tail(names),
                             IF IsObj(g.v) THEN seen \cup {g.v.n} ELSE seen, d))

\* One round of the loop over the remaining keys, on the outcome g of
\* Reflect.get: an object value is recorded as visited and every value is
\* converted with its own toString().
RestOfRead(h, detail, names, seen, d, g) ==
    PushLine(Head(names),
             IF ~g.ex /\ ~IsNullish(g.v) THEN safeAnyToString(h, g.v, d)
             ELSE R(Null, {}, FALSE, 0),
             RestFields(h, detail, Tail(names),
                        IF ~g.ex /\ IsObj(g.v) THEN seen \cup {g.v.n} ELSE seen, d))

\* The loop over the remaining keys.
RestFields(h, detail, names, seen, d) ==
    IF names = <<>> THEN R(<<>>, seen, FALSE, 0)
    ELSE RestOfRead(h, detail, names, seen, d, GetProp(h, detail, Head(names)))

\* The names of all own properties, enumerable or not.
DetailKeysOwn(h, detail) ==
    IF IsObj(detail) THEN [i \in 1..Len(h[detail.n].props) |-> h[detail.n].props[i].name]
    ELSE <<>>

\* new Set(Object.keys(detail)), with 'stack' added when it is inherited or
\* not enumerable.
DetailKeys(h, detail) ==
    IF ~InSeq("stack", ObjectKeys(h, detail)) /\ HasProp(h, detail, "stack")
    THEN Append(ObjectKeys(h, detail), "stack") ELSE ObjectKeys(h, detail)

\* The keys left after the known fields, stack and cause were deleted.
Others(keys) == SelectSeq(keys, LAMBDA k : ~InSeq(k, KnownNames) /\ k \notin {"stack", "cause"})

\* ListOf with stack and cause pushed where they are read, ahead of the
\* remaining fields.
ListOfStackFirst(known, rest, stack, cause) ==
    R(known.v
        \o (IF Truthy(stack.v) THEN <<(<<"stack:", "\n">> \o stack.v.s)>> ELSE <<>>)
        \o (IF Truthy(cause.v) THEN <<(<<"cause:", "\n">> \o cause.v.s)>> ELSE <<>>)
        \o rest.v,
      rest.seen, FALSE, 1 + known.n + stack.n + cause.n + rest.n)

\* The list _errorDetailToList returns: known fields, remaining fields,
\* stack, cause.
ListOf(known, rest, stack, cause) ==
    R(known.v \o rest.v
        \o (IF Truthy(stack.v) THEN <<(<<"stack:", "\n">> \o stack.v.s)>> ELSE <<>>)
        \o (IF Truthy(cause.v) THEN <<(<<"cause:", "\n">> \o cause.v.s)>> ELSE <<>>),
      rest.seen, FALSE, 1 + known.n + stack.n + cause.n + rest.n)

\* The remaining fields are read after the cause, with the visited set the
\* cause left behind.
ListOfCause(h, detail, d, keys, known, stack, cause) ==
    ListOf(known, RestFields(h, detail, Others(keys), cause.seen, d), stack, cause)

\* The known fields, then stack, then cause are read.
ListOfKeys(h, detail, seen, d, keys) ==
    ListOfCause(h, detail, d, keys,
                KnownFields(h, detail, keys, KnownNames, d),
                IF InSeq("stack", keys) THEN safeGetStringOf(h, detail, "stack", d)
                ELSE R(Null, {}, FALSE, 0),
                IF InSeq("cause", keys) THEN CauseToString(h, detail, seen, d)
                ELSE R(Null, seen, FALSE, 0))

\* _errorDetailToList: Object.keys raises for null and undefined.
_errorDetailToList(h, detail, seen, d) ==
    IF detail.t = "function" THEN R(<<>>, seen, FALSE, 1)
    ELSE IF ~IsObj(detail) THEN R(<<>>, seen, TRUE, 1)
    ELSE ListOfKeys(h, detail, seen, d, DetailKeys(h, detail))

\* fields.join('\n')
JoinList(r) == R(Text(Join(r.v)), r.seen, r.ex, r.n)

\* The header of the second part of a native error's text.
NativeProp(stack, name, message) ==
    IF Truthy(stack.v) THEN "stack"
    ELSE IF Truthy(message.v) THEN "message"
    ELSE IF Truthy(name.v) THEN "name" ELSE ""

\* The second part of a native error's text: the stack, or the name and the
\* message.
NativeStackOrMsg(stack, name, message) ==
    IF Truthy(stack.v) THEN stack.v.s
    ELSE IF Truthy(name.v) /\ Truthy(message.v) THEN name.v.s \o <<": ">> \o message.v.s
    ELSE IF Truthy(message.v) THEN message.v.s
    ELSE IF Truthy(name.v) THEN name.v.s ELSE <<>>

\* The text _nativeErrorToString returns.
NativeOf(baseMessage, stack, name, message, cause) ==
    R(Text(PrimToText(baseMessage.v)
             \o (IF NativeProp(stack, name, message) # ""
                 THEN <<"\n", NativeProp(stack, name, message) \o ":", "\n">>
                        \o NativeStackOrMsg(stack, name, message)
                 ELSE <<>>)
             \o (IF Truthy(cause.v) THEN <<"\n", "cause:", "\n">> \o cause.v.s ELSE <<>>)),
      cause.seen, FALSE, 1 + baseMessage.n + stack.n + name.n + message.n + cause.n)

\* name and message are read only when there is no stack.
NativeOfStack(h, error, seen, d, baseMessage, stack) ==
    NativeOf(baseMessage, stack,
             IF Truthy(stack.v) THEN R(Null, {}, FALSE, 0)
             ELSE safeGetStringOf(h, error, "name", d),
             IF Truthy(stack.v) THEN R(Null, {}, FALSE, 0)
             ELSE safeGetStringOf(h, error, "message", d),
             CauseToString(h, error, seen, d))

\* _nativeErrorToString: the error's toString(), then its stack (or its name
\* and message), then its cause.
_nativeErrorToString(h, error, seen, d) ==
    NativeOfStack(h, error, seen, d, safeAnyToString(h, error, d),
                  safeGetStringOf(h, error, "stack", d))

\* The text Error.prototype.toString returns for the converted name tn and
\* message tm.
ErrorProtoJoin(gn, gm, tn, tm) ==
    IF gn.ex \/ gm.ex \/ tn.ex \/ tm.ex THEN R(Undef, {}, TRUE, tn.n + tm.n)
    ELSE IF tn.v.s = <<>> THEN R(tm.v, {}, FALSE, tn.n + tm.n)
    ELSE IF tm.v.s = <<>> THEN R(tn.v, {}, FALSE, tn.n + tm.n)
    ELSE R(Text(tn.v.s \o <<": ">> \o tm.v.s), {}, FALSE, tn.n + tm.n)

\* An undefined name is 'Error', an undefined message is ''; anything else
\* is converted with String().
ErrorProtoOf(h, d, gn, gm) ==
    ErrorProtoJoin(gn, gm,
                   IF gn.v.t = "undefined" THEN R(Str("Error"), {}, FALSE, 0)
                   ELSE DoToString(h, gn.v, d),
                   IF gm.v.t = "undefined" THEN R(Str(""), {}, FALSE, 0)
                   ELSE DoToString(h, gm.v, d))

\* Error.prototype.toString: name and message joined by ': '.
ErrorProtoToString(h, v, d) ==
    ErrorProtoOf(h, d, GetProp(h, v, "name"), GetProp(h, v, "message"))

\* The header without the index of the element.
CollectionLineNoIndex(o, i, e, rest) ==
    IF e.ex THEN R(Undef, {}, TRUE, e.n)
    ELSE IF rest.ex THEN R(Undef, {}, TRUE, e.n + rest.n)
    ELSE R(Text(<<o.prefix \o ":", "\n">>
                  \o (IF IsNullish(e.v) THEN <<>> ELSE PrimToText(e.v))
                  \o (IF i = Len(o.items) THEN <<>> ELSE <<"\n">> \o rest.v.s)),
           {}, FALSE, e.n + rest.n)

\* `${prefix}.${i}:\n${e}` for the text e of element i, ahead of the text
\* of the elements after it.
CollectionLine(o, i, e, rest) ==
    IF e.ex THEN R(Undef, {}, TRUE, e.n)
    ELSE IF rest.ex THEN R(Undef, {}, TRUE, e.n + rest.n)
    ELSE R(Text(<<o.prefix \o "." \o NumStr(i - 1) \o ":", "\n">>
                  \o (IF IsNullish(e.v) THEN <<>> ELSE PrimToText(e.v))
                  \o (IF i = Len(o.items) THEN <<>> ELSE <<"\n">> \o rest.v.s)),
           {}, FALSE, e.n + rest.n)

RECURSIVE CollectionToString(_, _, _, _)
\* ErrorLikeCollection.toString, from element i on: `${prefix}.${i}:` and
\* the element's own toString(), joined by '\n'.
CollectionToString(h, v, i, d) ==
    IF i > Len(h[v.n].items) THEN R(Text(<<>>), {}, FALSE, 0)
    ELSE CollectionLine(h[v.n], i, DoToString(h, h[v.n].items[i], d),
                        CollectionToString(h, v, i + 1, d))

\* The toString the prototype of an object of the library provides.
ProtoToString(h, v, d) ==
    CASE h[v.n].kind = "wrapper" ->
           \* ErrorLikeProto.toString: errorDetailToString(this)
           WithSeen(JoinList(_errorDetailToList(h, v, {}, d + 1)), {})
      [] h[v.n].kind = "base" ->
           \* BaseError.toString: this.detail.toString()
           IF GetProp(h, v, "detail").ex THEN R(Undef, {}, TRUE, 0)
           ELSE DoToString(h, GetProp(h, v, "detail").v, d + 1)
      [] h[v.n].kind = "collection" -> CollectionToString(h, v, 1, d + 1)
      [] h[v.n].kind = "error" -> ErrorProtoToString(h, v, d + 1)
      [] OTHER -> R(Str("[object Object]"), {}, FALSE, 0)

\* An own toString: called when it is a function.
OwnMethod(g) ==
    IF g.ex \/ g.v.t # "function" THEN R(Undef, {}, TRUE, 0) ELSE CallFun(g.v)

\* anyValue.toString(): the own toString when the object has one, else the
\* one of its prototype; d is the depth of the call stack.
CallToString(h, v, d) ==
    IF IsNullish(v) THEN R(Undef, {}, TRUE, 0)
    ELSE IF ~IsObj(v) THEN R(Text(PrimToText(v)), {}, FALSE, 0)
    ELSE IF d >= StackLimit THEN R(Undef, {}, TRUE, 0)
    ELSE IF "toString" \in PropNames(h[v.n]) THEN OwnMethod(GetProp(h, v, "toString"))
    ELSE ProtoToString(h, v, d)

\* _errorToString: the dispatch on the kind of the value.
_errorToString(h, anyValue, seen, d) ==
    IF d >= StackLimit THEN R(Undef, seen, TRUE, 0)
    ELSE IF IsObj(anyValue) /\ h[anyValue.n].kind = "base"
    THEN IF GetProp(h, anyValue, "detail").ex THEN R(Undef, seen, TRUE, 0)
         ELSE JoinList(_errorDetailToList(h, GetProp(h, anyValue, "detail").v, seen, d + 1))
    ELSE IF IsObj(anyValue) /\ h[anyValue.n].kind = "collection"
    THEN WithSeen(DoToString(h, anyValue, d + 1), seen)
    ELSE IF IsObj(anyValue) /\ h[anyValue.n].kind = "error"
    THEN _nativeErrorToString(h, anyValue, seen, d + 1)
    ELSE IF IsObj(anyValue)
    THEN JoinList(_errorDetailToList(h, anyValue, seen, d + 1))
    ELSE IF ~IsNullish(anyValue)
    THEN WithSeen(safeAnyToString(h, anyValue, d + 1), seen)
    ELSE R(Null, seen, FALSE, 0)

-----------------------------------------------------------------------------
(* JSON rendering *)

\* The outcome of a JSON renderer: the result pair [code, v] (0 nothing
\* written, 1 fields written to target, 2 a bare value v), the target after
\* the call, the visited set, whether it raised, the renderers entered.
J(code, v, target, seen, ex, n) ==
    [code |-> code, v |-> v, target |-> target, seen |-> seen, ex |-> ex, n |-> n]

\* target[k] = v on the entries of a fresh object.
SetKey(entries, k, v) ==
    IF \E i \in 1..Len(entries) : entries[i].k = k
    THEN [i \in 1..Len(entries) |-> IF entries[i].k = k THEN [k |-> k, v |-> v] ELSE entries[i]]
    ELSE Append(entries, [k |-> k, v |-> v])

HasKey(entries, k) == \E i \in 1..Len(entries) : entries[i].k = k

KeyVal(entries, k) == entries[CHOOSE i \in 1..Len(entries) : entries[i].k = k].v

\* Number.isFinite and Number.isSafeInteger on the numbers of the model.
IsFinite(v) == v.t = "number" /\ (v.s = <<>> \/ v.s[1] \notin {"NaN", "Infinity"})

IsSafeInteger(v) == v.t = "number" /\ v.s = <<>>

\* 'toJSON' in anyValue
HasToJSON(h, v) ==
    /\ IsObj(v)
    /\ \/ "toJSON" \in PropNames(h[v.n])
       \/ h[v.n].kind \in {"wrapper", "base", "collection"}

\* The tail of errorDetailToJsonLike, nativeErrorToJsonLike and
\* errorToJsonLike: a bare value goes under the key __value.
Escape(r) ==
    R(Map(IF r.code = 2 THEN SetKey(r.target, "__value", r.v) ELSE r.target),
      r.seen, r.ex, r.n)

\* ok = true once a field was written: the outcome r of a step that went on
\* from the outcome acc.
OrCode(acc, r) ==
    J(IF acc.code = 1 \/ r.code = 1 THEN 1 ELSE 0, Null, r.target, r.seen, FALSE, acc.n + r.n)

\* if (value) { target[name] = value; ok = true } for the string g.
SetString(acc, name, g) ==
    J(IF Truthy(g.v) THEN 1 ELSE acc.code, Null,
      IF Truthy(g.v) THEN SetKey(acc.target, name, g.v) ELSE acc.target,
      acc.seen, FALSE, acc.n + g.n)

\* The body of _safeAnyToJson on the outcome r of anyValue.toJSON().
JsonOrNull(r) ==
    IF ~r.ex /\ r.v.t # "undefined" /\ r.v # Str("")
    THEN R(r.v, {}, FALSE, r.n) ELSE R(Null, {}, FALSE, r.n)

\* _safeAnyToJson: what toJSON() returns, null when there is none, when it
\* raises and when it returns undefined or ''.
_safeAnyToJson(h, v, d) ==
    IF IsObj(v) /\ HasToJSON(h, v) THEN JsonOrNull(DoToJSON(h, v, d))
    ELSE R(Null, {}, FALSE, 0)

\* A conversion that sends every value through safeAnyToString.
_safeAnyToPrimitiveText(h, v, d) == safeAnyToString(h, v, d)

\* _safeAnyToPrimitive: booleans, finite numbers and non-empty strings as
\* they are, anything else through safeAnyToString.
_safeAnyToPrimitive(h, v, d) ==
    IF v.t = "boolean" \/ IsFinite(v) \/ (v.t = "string" /\ v.s # <<>>)
    THEN R(v, {}, FALSE, 0)
    ELSE safeAnyToString(h, v, d)

RECURSIVE CopyEntries(_, _, _, _)
\* The entries Object.entries(source) reads, up to the first getter that
\* raises: [entries, ex].
CopyEntries(h, source, names, acc) ==
    IF names = <<>> THEN [entries |-> acc, ex |-> FALSE]
    ELSE IF GetProp(h, source, Head(names)).ex THEN [entries |-> <<>>, ex |-> TRUE]
    ELSE CopyEntries(h, source, Tail(names),
                     Append(acc, [k |-> Head(names), v |-> GetProp(h, source, Head(names)).v]))

RECURSIVE PutEntries(_, _)
\* target[key] = value for every entry.
PutEntries(target, es) ==
    IF es = <<>> THEN target
    ELSE PutEntries(SetKey(target, Head(es).k, Head(es).v), Tail(es))

\* The loop of _copyObjectToTarget over the entries read.
CopyOfRead(target, read) ==
    IF read.ex THEN J(0, Null, target, {}, FALSE, 0)
    ELSE J(IF read.entries # <<>> THEN 1 ELSE 0, Null, PutEntries(target, read.entries),
           {}, FALSE, 0)

\* _copyObjectToTarget: every entry of source written to target; true when
\* at least one was written.
_copyObjectToTarget(h, target, source) ==
    CopyOfRead(target, IF source.t \in {"map", "array"}
                       THEN [entries |-> source.kids, ex |-> FALSE]
                       ELSE CopyEntries(h, source, ObjectKeys(h, source), <<>>))

\* target[name] = temp or result[1], by the result r of _errorToJsonLike.
WriteResult(target, name, r) ==
    IF r.ex THEN J(0, Null, target, r.seen, FALSE, r.n)
    ELSE IF r.code = 1 THEN J(1, Null, SetKey(target, name, Map(r.target)), r.seen, FALSE, r.n)
    ELSE IF r.code = 2 THEN J(1, Null, SetKey(target, name, r.v), r.seen, FALSE, r.n)
    ELSE J(0, Null, target, r.seen, FALSE, r.n)

\* The extraction without the test of the visited set.
ExtractOfReadUnguarded(h, target, name, seen, d, g) ==
    IF g.ex \/ IsNullish(g.v) THEN J(0, Null, target, seen, FALSE, 0)
    ELSE WriteResult(target, name,
                     DoErrorToJsonLike(h, <<>>, g.v,
                                       IF IsObj(g.v) THEN seen \cup {g.v.n} ELSE seen, d))

\* The body of _tryExtractProperty on the outcome g of Reflect.get: nothing
\* for a value that is absent, unreadable or an object of the visited set.
ExtractOfRead(h, target, name, seen, d, g) ==
    IF g.ex \/ IsNullish(g.v) THEN J(0, Null, target, seen, FALSE, 0)
    ELSE IF IsObj(g.v) /\ g.v.n \in seen THEN J(0, Null, target, seen, FALSE, 0)
    ELSE WriteResult(target, name,
                     DoErrorToJsonLike(h, <<>>, g.v,
                                       IF IsObj(g.v) THEN seen \cup {g.v.n} ELSE seen, d))

\* _tryExtractProperty: source[name] rendered into target[name]; code 1 when
\* written.
_tryExtractProperty(h, target, source, name, seen, d) ==
    ExtractOfRead(h, target, name, seen, d, GetProp(h, source, name))

\* if (_tryExtractProperty(target, source, name, seen)) ok = true
ExtractInto(h, source, name, d, acc) ==
    OrCode(acc, _tryExtractProperty(h, acc.target, source, name, acc.seen, d))

RECURSIVE ExtractAll(_, _, _, _, _)
\* The loop over the remaining keys of the JSON renderer.
ExtractAll(h, source, names, d, acc) ==
    IF names = <<>> THEN acc
    ELSE ExtractAll(h, source, Tail(names), d, ExtractInto(h, source, Head(names), d, acc))

\* The known string fields of the JSON renderer.
JsonStringNames == <<"name", "message", "level">>

\* The keys left after the known fields, stack and cause were deleted.
JsonOthers(keys) ==
    SelectSeq(keys, LAMBDA k : k \notin {"code", "name", "message", "level", "stack", "cause"})

\* code written whatever it is, unless reading it raised.
CodeOfReadAny(acc, g) ==
    IF ~g.ex /\ ~IsNullish(g.v)
    THEN J(1, Null, SetKey(acc.target, "code", g.v), acc.seen, FALSE, acc.n)
    ELSE acc

\* code written as the text it converts to.
CodeOfReadText(acc, g) ==
    IF ~g.ex /\ ((g.v.t = "string" /\ g.v.s # <<>>) \/ IsSafeInteger(g.v))
    THEN J(1, Null, SetKey(acc.target, "code", Text(PrimToText(g.v))), acc.seen, FALSE, acc.n)
    ELSE acc

\* code is written when it is a non-empty string or a safe integer.
CodeOfRead(acc, g) ==
    IF ~g.ex /\ ((g.v.t = "string" /\ g.v.s # <<>>) \/ IsSafeInteger(g.v))
    THEN J(1, Null, SetKey(acc.target, "code", g.v), acc.seen, FALSE, acc.n)
    ELSE acc

JsonCode(h, detail, keys, acc) ==
    IF InSeq("code", keys) THEN CodeOfRead(acc, GetProp(h, detail, "code")) ELSE acc

RECURSIVE JsonStrings(_, _, _, _, _, _)
\* The loop over name, message and level: strings only.
JsonStrings(h, detail, keys, names, d, acc) ==
    IF names = <<>> THEN acc
    ELSE IF ~InSeq(Head(names), keys) THEN JsonStrings(h, detail, keys, Tail(names), d, acc)
    ELSE JsonStrings(h, detail, keys, Tail(names), d,
                     SetString(acc, Head(names), safeGetStringOf(h, detail, Head(names), d)))

JsonStack(h, detail, keys, d, acc) ==
    IF InSeq("stack", keys) THEN SetString(acc, "stack", safeGetStringOf(h, detail, "stack", d))
    ELSE acc

JsonCause(h, detail, keys, d, acc) ==
    IF InSeq("cause", keys) THEN ExtractInto(h, detail, "cause", d, acc) ELSE acc

\* code, the known string fields, the remaining fields, stack, cause.
JsonOfKeys(h, detail, keys, d, acc) ==
    JsonCause(h, detail, keys, d,
      JsonStack(h, detail, keys, d,
        ExtractAll(h, detail, JsonOthers(keys), d,
          JsonStrings(h, detail, keys, JsonStringNames, d,
            JsonCode(h, detail, keys, acc)))))

\* _errorDetailToJsonLike: Object.keys raises for null and undefined.
_errorDetailToJsonLike(h, target, detail, seen, d) ==
    IF detail.t = "function" THEN J(0, Null, target, seen, FALSE, 1)
    ELSE IF ~IsObj(detail) THEN J(0, Null, target, seen, TRUE, 1)
    ELSE JsonOfKeys(h, detail, DetailKeys(h, detail), d, J(0, Null, target, seen, FALSE, 1))

\* name, message, stack and cause of a native error.
NativeFields(h, error, d, acc) ==
    ExtractInto(h, error, "cause", d,
      SetString(
        SetString(
          SetString(acc, "name", safeGetStringOf(h, error, "name", d)),
          "message", safeGetStringOf(h, error, "message", d)),
        "stack", safeGetStringOf(h, error, "stack", d)))

\* if (!ok): [2, value] for the primitive the error converts to.
NativePrim(acc, prim) ==
    J(IF prim.v # Null THEN 2 ELSE 0, prim.v, acc.target, acc.seen, FALSE, acc.n + prim.n)

\* The end of _nativeErrorToJsonLike: with no field written, the value of
\* toJSON() or the primitive the error converts to is the result.
NativeEnd(h, error, d, value, acc) ==
    IF acc.code = 1 THEN acc
    ELSE IF value.v # Null THEN J(2, value.v, acc.target, acc.seen, FALSE, acc.n)
    ELSE NativePrim(acc, _safeAnyToPrimitive(h, error, d))

\* An object toJSON() returned, once copied, is the whole result.
NativeOfCopy(h, error, seen, d, value, copy) ==
    IF copy.code = 1 THEN J(1, Null, copy.target, seen, FALSE, 1 + value.n)
    ELSE NativeEnd(h, error, d, value,
                   NativeFields(h, error, d, J(0, Null, copy.target, seen, FALSE, 1 + value.n)))

NativeOfValue(h, target, error, seen, d, value) ==
    NativeOfCopy(h, error, seen, d, value,
                 IF value.v.t \in {"object", "map", "array"}
                 THEN _copyObjectToTarget(h, target, value.v)
                 ELSE J(0, Null, target, {}, FALSE, 0))

\* _nativeErrorToJsonLike: the object its toJSON() returns when there is
\* one, else name, message, stack and cause.
_nativeErrorToJsonLike(h, target, error, seen, d) ==
    NativeOfValue(h, target, error, seen, d, _safeAnyToJson(h, error, d))

\* The array entry of element i, ahead of the entries after it.
CollectionItem(i, e, rest) ==
    IF e.ex THEN R(<<>>, {}, TRUE, e.n)
    ELSE R(<<[k |-> NumStr(i - 1), v |-> e.v]>> \o rest.v, {}, rest.ex, e.n + rest.n)

RECURSIVE CollectionToJSON(_, _, _, _)
\* ErrorLikeCollection.toJSON, from element i on: the array of the
\* elements' own toJSON().
CollectionToJSON(h, v, i, d) ==
    IF i > Len(h[v.n].items) THEN R(<<>>, {}, FALSE, 0)
    ELSE CollectionItem(i, DoToJSON(h, h[v.n].items[i], d), CollectionToJSON(h, v, i + 1, d))

\* { [prefix]: items }
CollectionMap(prefix, r) ==
    R(Map(<<[k |-> prefix, v |-> [t |-> "array", s |-> <<>>, n |-> 0, kids |-> r.v]]>>),
      {}, r.ex, r.n)

\* The toJSON the prototype of an object of the library provides.
ProtoToJSON(h, v, d) ==
    CASE h[v.n].kind = "wrapper" ->
           \* ErrorLikeProto.toJSON: errorDetailToJsonLike(this)
           Escape(_errorDetailToJsonLike(h, <<>>, v, {}, d + 1))
      [] h[v.n].kind = "base" ->
           \* BaseError.toJSON: this.detail.toJSON()
           IF GetProp(h, v, "detail").ex THEN R(Undef, {}, TRUE, 0)
           ELSE DoToJSON(h, GetProp(h, v, "detail").v, d + 1)
      [] h[v.n].kind = "collection" ->
           CollectionMap(h[v.n].prefix, CollectionToJSON(h, v, 1, d + 1))
      [] OTHER -> R(Undef, {}, TRUE, 0)

\* anyValue.toJSON()
CallToJSON(h, v, d) ==
    IF ~IsObj(v) \/ d >= StackLimit THEN R(Undef, {}, TRUE, 0)
    ELSE IF "toJSON" \in PropNames(h[v.n]) THEN OwnMethod(GetProp(h, v, "toJSON"))
    ELSE ProtoToJSON(h, v, d)

\* The entries of the object a collection's toJSON() returned, written to
\* target.
CopyOfJSON(target, seen, obj, copy) ==
    IF obj.ex THEN J(0, Null, target, seen, TRUE, obj.n)
    ELSE J(copy.code, Null, copy.target, seen, FALSE, obj.n)

CopyCollection(h, target, seen, obj) ==
    CopyOfJSON(target, seen, obj, _copyObjectToTarget(h, target, obj.v))

\* _safeAnyToJson(anyValue) ?? _safeAnyToPrimitive(anyValue)
OrElse(js, prim) == IF js.v # Null THEN js ELSE R(prim.v, {}, FALSE, js.n + prim.n)

\* The result for a value that is no object: an object it converts to is
\* copied, anything else that is not null is a bare value.
ValueOf(h, target, seen, value) ==
    IF value.v = Null THEN J(0, Null, target, seen, FALSE, value.n)
    ELSE IF value.v.t \in {"object", "map", "array"}
         THEN CopyOfJSON(target, seen, value, _copyObjectToTarget(h, target, value.v))
    ELSE J(2, value.v, target, seen, FALSE, value.n)

\* _errorToJsonLike: the dispatch on the kind of the value.
_errorToJsonLike(h, target, anyValue, seen, d) ==
    IF d >= StackLimit THEN J(0, Null, target, seen, TRUE, 0)
    ELSE IF IsObj(anyValue) /\ h[anyValue.n].kind = "base"
    THEN IF GetProp(h, anyValue, "detail").ex THEN J(0, Null, target, seen, TRUE, 0)
         ELSE _errorDetailToJsonLike(h, target, GetProp(h, anyValue, "detail").v, seen, d + 1)
    ELSE IF IsObj(anyValue) /\ h[anyValue.n].kind = "collection"
    THEN CopyCollection(h, target, seen, DoToJSON(h, anyValue, d + 1))
    ELSE IF IsObj(anyValue) /\ h[anyValue.n].kind = "error"
    THEN _nativeErrorToJsonLike(h, target, anyValue, seen, d + 1)
    ELSE IF IsObj(anyValue)
    THEN _errorDetailToJsonLike(h, target, anyValue, seen, d + 1)
    ELSE IF ~IsNullish(anyValue)
    THEN ValueOf(h, target, seen,
                 OrElse(_safeAnyToJson(h, anyValue, d + 1),
                        _safeAnyToPrimitive(h, anyValue, d + 1)))
    ELSE J(0, Null, target, seen, FALSE, 0)

-----------------------------------------------------------------------------
(* The entry points *)

Invoke(h, c) ==
    CASE c.f = "toString" -> CallToString(h, c.v, c.d)
      [] c.f = "_errorToString" -> _errorToString(h, c.v, c.seen, c.d)
      [] c.f = "toJSON" -> CallToJSON(h, c.v, c.d)
      [] OTHER -> _errorToJsonLike(h, c.target, c.v, c.seen, c.d)

\* errorDetailToString: a fresh visited set per call.
errorDetailToString(h, detail) == JoinList(_errorDetailToList(h, detail, {}, 1))

\* value ?? ''
OrEmpty(r) == IF r.ex THEN r ELSE R(IF IsNullish(r.v) THEN Str("") ELSE r.v, r.seen, FALSE, r.n)

\* errorToString: a fresh visited set per call; null becomes ''.
errorToString(h, anyValue) == OrEmpty(_errorToString(h, anyValue, {}, 0))

\* errorDetailToJsonLike: a fresh target and a fresh visited set per call.
errorDetailToJsonLike(h, detail) == Escape(_errorDetailToJsonLike(h, <<>>, detail, {}, 1))

\* nativeErrorToJsonLike: a fresh target and a fresh visited set per call.
nativeErrorToJsonLike(h, error) == Escape(_nativeErrorToJsonLike(h, <<>>, error, {}, 1))

\* errorToJsonLike: a fresh target and a fresh visited set per call.
errorToJsonLike(h, anyValue) == Escape(_errorToJsonLike(h, <<>>, anyValue, {}, 0))

-----------------------------------------------------------------------------
(* Wrappers *)

\* isErrorLike by the shape of the object: own toString and toJSON count as
\* the prototype does.
isErrorLikeDuck(h, v) ==
    IsObj(v) /\ (h[v.n].kind = "wrapper" \/ {"toString", "toJSON"} \subseteq PropNames(h[v.n]))

\* isErrorLike: a non-null object whose prototype is ErrorLikeProto.
isErrorLike(h, v) == IsObj(v) /\ h[v.n].kind = "wrapper"

\* The text Error.captureStackTrace leaves in the stack of its target.
CapturedStack == Str("Error at createErrorLike")

\* Reflect.set(target, 'stack', v): an own data property is overwritten in
\* place, an accessor without a setter is left alone, else the property is
\* added last.
SetStack(o, v) ==
    IF "stack" \in PropNames(o)
    THEN [o EXCEPT !.props = [i \in 1..Len(o.props) |->
             IF o.props[i].name = "stack" /\ o.props[i].get = "data"
             THEN [o.props[i] EXCEPT !.val = v] ELSE o.props[i]]]
    ELSE [o EXCEPT !.props = Append(o.props, Prop("stack", v))]

\* Fallback without the input: the wrapper does not say what it was made of.
FallbackNoCause(detail) ==
    Obj("plain", <<Prop("message", Str("IErrorLike was not created")),
                   Prop("level", Str("error"))>>)

\* The detail createErrorLike substitutes for an input that is no object.
Fallback(detail) ==
    Obj("plain", <<Prop("message", Str("IErrorLike was not created")),
                   Prop("level", Str("error")),
                   Prop("cause", detail)>>)

\* props: the caller's object when detail is one, else the fallback; the
\* stack is captured on it.
Props(h, detail, captureStack) ==
    IF captureStack
    THEN SetStack(IF IsObj(detail) THEN h[detail.n] ELSE Fallback(detail), CapturedStack)
    ELSE IF IsObj(detail) THEN h[detail.n] ELSE Fallback(detail)

\* captureStackTrace on a copy: the caller's object is left as it was.
CapturedApart(h, detail, captureStack) == h

\* The heap after captureStackTrace(props, construct).
Captured(h, detail, captureStack) ==
    IF IsObj(detail) THEN [h EXCEPT ![detail.n] = Props(h, detail, captureStack)] ELSE h

\* The wrapper Object.assign fills from the entries read: [heap, v, ex].
AssignOfRead(h, read) ==
    IF read.ex THEN [heap |-> h, v |-> Undef, ex |-> TRUE]
    ELSE [heap |-> Append(h, Obj("wrapper", [i \in 1..Len(read.entries) |->
                                   Prop(read.entries[i].k, read.entries[i].v)])),
          v |-> Ref(Len(h) + 1), ex |-> FALSE]

\* Object.assign(Object.create(ErrorLikeProto), props): every enumerable own
\* property of props is read; a getter that raises ends the call.
Assign(h, props) ==
    AssignOfRead(h, CopyEntries(Append(h, props), Ref(Len(h) + 1),
                                ObjectKeys(Append(h, props), Ref(Len(h) + 1)), <<>>))

\* createErrorLike: [heap, v, ex].
createErrorLike(h, detail, captureStack) ==
    Assign(Captured(h, detail, captureStack), Props(h, detail, captureStack))

\* ensureErrorLike without the conversion: the value as it came.
ensureErrorLikeRaw(h, maybeError) == [heap |-> h, v |-> maybeError, ex |-> FALSE]

\* ensureErrorLike that makes a new wrapper of whatever it is handed.
ensureErrorLikeCopy(h, maybeError) == createErrorLike(h, maybeError, FALSE)

\* ensureErrorLike: a wrapper as it is, the detail of a BaseError, else the
\* wrapper createErrorLike makes: [heap, v, ex].
ensureErrorLike(h, maybeError) ==
    IF isErrorLike(h, maybeError) THEN [heap |-> h, v |-> maybeError, ex |-> FALSE]
    ELSE IF IsObj(maybeError) /\ h[maybeError.n].kind = "base"
    THEN [heap |-> h, v |-> GetProp(h, maybeError, "detail").v,
          ex |-> GetProp(h, maybeError, "detail").ex]
    ELSE createErrorLike(h, maybeError, FALSE)

-----------------------------------------------------------------------------
(* BaseError *)

\* detail.message: raises for null and undefined, undefined for any other
\* value that is no object.
Member(h, v, name) ==
    IF IsNullish(v) THEN R(Undef, {}, TRUE, 0)
    ELSE IF ~IsObj(v) THEN R(Undef, {}, FALSE, 0)
    ELSE GetProp(h, v, name)

\* The name of the class of the errors constructed: error.constructor.name.
ConstructorName == Str("TestError")

\* The own properties super(message) leaves on the new error: its stack,
\* and its message unless that is undefined.
ErrorProps(message) ==
    <<Hidden("stack", Str("Error at new TestError"))>>
      \o (IF IsNullish(message) THEN <<>>
          ELSE <<Hidden("message", Text(PrimToText(message)))>>)

\* detail[name] = v on an object whose property, if it has one, is a data
\* property.
SetField(o, name, v) ==
    IF name \in PropNames(o)
    THEN [o EXCEPT !.props = [i \in 1..Len(o.props) |->
             IF o.props[i].name = name THEN [o.props[i] EXCEPT !.val = v] ELSE o.props[i]]]
    ELSE [o EXCEPT !.props = Append(o.props, Prop(name, v))]

\* if (typeof detail.name !== 'string') detail.name = error.constructor.name,
\* for the outcome g of reading detail.name: [heap, ex].
WriteName(h, d, g) ==
    IF g.ex THEN [heap |-> h, ex |-> TRUE]
    ELSE IF g.v.t = "string" THEN [heap |-> h, ex |-> FALSE]
    ELSE [heap |-> [h EXCEPT ![d] = SetField(@, "name", ConstructorName)], ex |-> FALSE]

\* if (typeof detail.stack !== 'string') detail.stack = safeGetStringOf(error, 'stack')
WriteStack(w, d, e, g) ==
    IF w.ex THEN w
    ELSE IF g.ex THEN [heap |-> w.heap, ex |-> TRUE]
    ELSE IF g.v.t = "string" THEN w
    ELSE [heap |-> [w.heap EXCEPT ![d] =
                      SetField(@, "stack", safeGetStringOf(w.heap, Ref(e), "stack", 0).v)],
          ex |-> FALSE]

\* _writeNameAndStackOf that writes nothing.
_writeNameAndStackOfNone(h, detail, error) == [heap |-> h, ex |-> FALSE]

\* _writeNameAndStackOf(detail, error): [heap, ex].
_writeNameAndStackOf(h, detail, error) ==
    WriteStack(WriteName(h, detail.n, GetProp(h, detail, "name")),
               detail.n, error.n, GetProp(h, detail, "stack"))

\* isErrorLike(detail) ? detail : createErrorLike(detail, false)
DetailOfNew(h, detail) ==
    IF isErrorLike(h, detail) THEN [heap |-> h, v |-> detail, ex |-> FALSE]
    ELSE createErrorLike(h, detail, FALSE)

\* The outcome of the constructor: the error at address e, or the heap h0 it
\* started from with what was written to its objects before it raised.
Written(h0, e, w) ==
    IF w.ex THEN [heap |-> SubSeq(w.heap, 1, Len(h0)), v |-> Undef, ex |-> TRUE]
    ELSE [heap |-> w.heap, v |-> Ref(e), ex |-> FALSE]

\* this.detail = c.v; _writeNameAndStackOf(this.detail, this)
WithDetail(h0, e, c) ==
    IF c.ex THEN [heap |-> h0, v |-> Undef, ex |-> TRUE]
    ELSE Written(h0, e,
                 _writeNameAndStackOf([c.heap EXCEPT ![e].props = Append(@, Prop("detail", c.v))],
                                      c.v, Ref(e)))

\* super(detail.message ?? undefined) for the outcome g of reading
\* detail.message, then the rest of the constructor.
Super(h, detail, g) ==
    IF g.ex THEN [heap |-> h, v |-> Undef, ex |-> TRUE]
    ELSE WithDetail(h, Len(h) + 1, DetailOfNew(Append(h, Obj("base", ErrorProps(g.v))), detail))

\* new BaseError(detail), through a subclass: [heap, v, ex].
BaseError(h, detail) == Super(h, detail, Member(h, detail, "message"))

-----------------------------------------------------------------------------
(* ErrorLikeCollection *)

\* (typeof prefix === 'string') ? prefix : 'errors'
PrefixOf(prefix) ==
    IF prefix.t # "string" THEN "errors"
    ELSE IF prefix.s = <<>> THEN "" ELSE prefix.s[1]

RECURSIVE push(_, _, _)
\* super.push(e) for the outcome e of ensureErrorLike(item), then the items
\* after it.
PushEnsured(c, items, e) ==
    IF e.ex THEN [heap |-> e.heap, ex |-> TRUE]
    ELSE push([e.heap EXCEPT ![c].items = Append(@, e.v)], c, items)

\* push(...items) on the collection at address c: [heap, ex].
push(h, c, items) ==
    IF items = <<>> THEN [heap |-> h, ex |-> FALSE]
    ELSE PushEnsured(c, Tail(items), ensureErrorLike(h, Head(items)))

RECURSIVE unshift(_, _, _)
\* super.unshift(e), then the items after it: each goes to the front.
UnshiftEnsured(c, items, e) ==
    IF e.ex THEN [heap |-> e.heap, ex |-> TRUE]
    ELSE unshift([e.heap EXCEPT ![c].items = <<e.v>> \o @], c, items)

\* unshift(...items) on the collection at address c: [heap, ex].
unshift(h, c, items) ==
    IF items = <<>> THEN [heap |-> h, ex |-> FALSE]
    ELSE UnshiftEnsured(c, Tail(items), ensureErrorLike(h, Head(items)))

\* The outcome of new ErrorLikeCollection once push has run: [heap, v, ex].
Constructed(c, pushed) ==
    [heap |-> pushed.heap, v |-> IF pushed.ex THEN Undef ELSE Ref(c), ex |-> pushed.ex]

\* new ErrorLikeCollection(prefix, iterable): the elements Array.from takes
\* from the iterable (none from null and undefined) are pushed.
ErrorLikeCollection(h, prefix, iterable) ==
    Constructed(Len(h) + 1,
                push(Append(h, Coll(PrefixOf(prefix), <<>>)), Len(h) + 1, iterable))

RECURSIVE EnsureAll(_, _, _)
EnsureNext(items, acc, e) ==
    IF e.ex THEN [heap |-> e.heap, vs |-> <<>>, ex |-> TRUE]
    ELSE EnsureAll(e.heap, items, Append(acc, e.v))

\* items.map((item) => ensureErrorLike(item)): [heap, vs, ex].
EnsureAll(h, items, acc) ==
    IF items = <<>> THEN [heap |-> h, vs |-> acc, ex |-> FALSE]
    ELSE EnsureNext(Tail(items), acc, ensureErrorLike(h, Head(items)))

\* The index Array.prototype.splice starts from: counted from the end when
\* negative, within 0..len.
SpliceStart(len, start) ==
    IF start < 0 THEN (IF len + start < 0 THEN 0 ELSE len + start)
    ELSE IF start > len THEN len ELSE start

\* The number of elements it removes: undefined counts as 0 since super.splice
\* is always handed the argument; within 0..len - from.
SpliceCount(len, from, deleteCount) ==
    IF deleteCount.t # "number" \/ deleteCount.n < 0 THEN 0
    ELSE IF deleteCount.n > len - from THEN len - from ELSE deleteCount.n

\* The elements super.splice leaves in the array.
SpliceKept(items, from, count, rest) ==
    SubSeq(items, 1, from) \o rest \o SubSeq(items, from + count + 1, Len(items))

\* The collection splice returns: the removed elements under this._prefix,
\* the array left with the kept ones.
SpliceAt(h, c, from, count, rest) ==
    ErrorLikeCollection([h EXCEPT ![c].items = SpliceKept(@, from, count, rest)],
                        Str(h[c].prefix), SubSeq(h[c].items, from + 1, from + count))

SpliceOf(c, start, deleteCount, rest) ==
    IF rest.ex THEN [heap |-> rest.heap, v |-> Undef, ex |-> TRUE]
    ELSE SpliceAt(rest.heap, c, SpliceStart(Len(rest.heap[c].items), start),
                  SpliceCount(Len(rest.heap[c].items),
                              SpliceStart(Len(rest.heap[c].items), start), deleteCount),
                  rest.vs)

\* splice(start, deleteCount, ...items) on the collection at address c:
\* [heap, v, ex].
splice(h, c, start, deleteCount, items) ==
    SpliceOf(c, start, deleteCount, EnsureAll(h, items, <<>>))

-----------------------------------------------------------------------------
(* The program: a heap of objects and the outcome of the last call of the  *)
(* library.                                                                *)

NoCall == [op |-> "none", arg |-> Undef, flag |-> FALSE, out |-> Undef, ex |-> FALSE, n |-> 0]

Called(op, arg, flag, r) ==
    [op |-> op, arg |-> arg, flag |-> flag, out |-> r.v, ex |-> r.ex, n |-> r.n]

\* A property holding a reference to object l; none when l = 0.
Link(name, l) == IF l = 0 THEN <<>> ELSE <<Prop(name, Ref(l))>>

HiddenLink(name, l) == IF l = 0 THEN <<>> ELSE <<Hidden(name, Ref(l))>>

\* The own properties new Error(message) has.
ErrorOwn == <<Hidden("stack", Str("Error: Root cause at root")), Hidden("message", Str("Root cause"))>>

\* The primitives handed to the entry points.
Prims == {Undef, Null, Str(""), Str("Just a string"), Num(123), Bool(TRUE), Sym("s"), Fun("text")}

ErrorToString(v) ==
    /\ ret' = Called("errorToString", v, FALSE, errorToString(heap, v))
    /\ UNCHANGED heap

ErrorDetailToString(v) ==
    /\ ret' = Called("errorDetailToString", v, FALSE, errorDetailToString(heap, v))
    /\ UNCHANGED heap

ErrorToJsonLike(v) ==
    /\ ret' = Called("errorToJsonLike", v, FALSE, errorToJsonLike(heap, v))
    /\ UNCHANGED heap

ErrorDetailToJsonLike(v) ==
    /\ ret' = Called("errorDetailToJsonLike", v, FALSE, errorDetailToJsonLike(heap, v))
    /\ UNCHANGED heap

NativeErrorToJsonLike(v) ==
    /\ ret' = Called("nativeErrorToJsonLike", v, FALSE, nativeErrorToJsonLike(heap, v))
    /\ UNCHANGED heap

\* `${value}`: the toString() of an object of the library.
ObjToString(v) ==
    /\ ret' = Called("toString", v, FALSE, CallToString(heap, v, 0))
    /\ UNCHANGED heap

\* value.toJSON(), as JSON.stringify calls it.
ObjToJSON(v) ==
    /\ ret' = Called("toJSON", v, FALSE, CallToJSON(heap, v, 0))
    /\ UNCHANGED heap

\* The outcome of createErrorLike as the outcome of a call.
Created(c) == R(c.v, {}, c.ex, 0)

CreateErrorLike(v, captureStack) ==
    /\ Len(heap) < MaxHeap
    /\ heap' = createErrorLike(heap, v, captureStack).heap
    /\ ret' = Called("createErrorLike", v, captureStack,
                     Created(createErrorLike(heap, v, captureStack)))

\* The outcome of a call of a method of a collection, with the items it was
\* handed.
Done(op, arg, items, r) ==
    [op |-> op, arg |-> arg, flag |-> FALSE, out |-> r.v, ex |-> r.ex, n |-> 0,
     items |-> items]

\* The number of items ensureErrorLike makes a new wrapper for.
Fresh(h, items) ==
    Cardinality({i \in 1..Len(items) :
                   ~(IsObj(items[i]) /\ h[items[i].n].kind \in {"wrapper", "base"})})

\* this.length, returned by push and unshift.
LengthOf(h, c, r) == [v |-> Num(Len(h[c].items)), ex |-> r.ex]

NewCollection(prefix, iterable) ==
    /\ Len(heap) + 1 + Fresh(heap, iterable) <= MaxColl
    /\ heap' = ErrorLikeCollection(heap, prefix, iterable).heap
    /\ ret' = Done("new", prefix, iterable, ErrorLikeCollection(heap, prefix, iterable))

Push(c, items) ==
    /\ Len(heap) + Fresh(heap, items) <= MaxColl
    /\ Len(heap[c].items) + Len(items) <= MaxLen
    /\ heap' = push(heap, c, items).heap
    /\ ret' = Done("push", Ref(c), items, LengthOf(heap', c, push(heap, c, items)))

Unshift(c, items) ==
    /\ Len(heap) + Fresh(heap, items) <= MaxColl
    /\ Len(heap[c].items) + Len(items) <= MaxLen
    /\ heap' = unshift(heap, c, items).heap
    /\ ret' = Done("unshift", Ref(c), items, LengthOf(heap', c, unshift(heap, c, items)))

Splice(c, start, deleteCount, items) ==
    /\ Len(heap) + 1 + Fresh(heap, items) <= MaxColl
    /\ Len(heap[c].items) + Len(items) <= MaxLen
    /\ heap' = splice(heap, c, start, deleteCount, items).heap
    /\ ret' = Done("splice", Ref(c), items, splice(heap, c, start, deleteCount, items))

\* splice(start): the call with one argument, deleteCount and items left
\* out.
SpliceFrom(c, start) ==
    /\ Len(heap) + 1 <= MaxColl
    /\ heap' = splice(heap, c, start, Undef, <<>>).heap
    /\ ret' = [op |-> "splice(start)", arg |-> Ref(c), flag |-> FALSE,
               out |-> splice(heap, c, start, Undef, <<>>).v,
               ex |-> splice(heap, c, start, Undef, <<>>).ex, n |-> 0, start |-> start]

\* The outcome of a call that may add objects to the heap, with the number
\* of objects before it.
Ensured(op, arg, r, h) ==
    [op |-> op, arg |-> arg, flag |-> FALSE, out |-> r.v, ex |-> r.ex, n |-> 0,
     before |-> Len(h)]

EnsureErrorLike(v) ==
    /\ Len(ensureErrorLike(heap, v).heap) <= MaxHeap
    /\ heap' = ensureErrorLike(heap, v).heap
    /\ ret' = Ensured("ensureErrorLike", v, ensureErrorLike(heap, v), heap)

NewBaseError(v) ==
    /\ Len(BaseError(heap, v).heap) <= MaxHeap
    /\ heap' = BaseError(heap, v).heap
    /\ ret' = Ensured("BaseError", v, BaseError(heap, v), heap)

\* The plain object a mapping is once a renderer has returned it.
AsObject(m) == Obj("plain", [i \in 1..Len(m.kids) |-> Prop(m.kids[i].k, m.kids[i].v)])

\* errorToJsonLike on the mapping the last call returned: the mapping is an
\* object of its own, which nothing holds after the call.
Reserialize ==
    /\ ret.op = "errorDetailToJsonLike" /\ ~ret.ex
    /\ \A i \in 1..Len(ret.out.kids) : ret.out.kids[i].v.t \notin {"map", "array", "object"}
    /\ ret' = Called("errorToJsonLike", ret.out, FALSE,
                     errorToJsonLike(Append(heap, AsObject(ret.out)), Ref(Len(heap) + 1)))
    /\ UNCHANGED heap

\* A BaseError holds a wrapper in detail and an ErrorLikeCollection holds
\* wrappers: the constructors and push/unshift/splice see to it.
WellFormed(h) ==
    \A a \in Addrs(h) :
        /\ h[a].kind = "base" =>
             /\ "detail" \in PropNames(h[a])
             /\ isErrorLike(h, PropOf(h[a], "detail").val)
        /\ h[a].kind = "collection" =>
             \A i \in 1..Len(h[a].items) : isErrorLike(h, h[a].items[i])

-----------------------------------------------------------------------------
(* The heaps the specifications start from *)

\* The kinds of object of a heap of hostile and aliased objects.
Templates == {"alias", "hostile", "obj", "methods", "native", "base", "coll", "detail"}

\* The object of template t at address a, linked to l.
Shape(t, a, l) ==
    CASE t = "alias" ->
           Obj("wrapper", <<Prop("name", Str("HackerError"))>> \o Link("self", l))
      [] t = "hostile" ->
           Obj("wrapper", <<Prop("name", Str("HackerError")), Thrower("message")>>
                            \o Link("cause", l))
      [] t = "obj" -> Obj("plain", <<Prop("some", Num(123))>> \o Link("error", l))
      [] t = "methods" ->
           Obj("wrapper", <<Prop("toString", Fun("throw")), Prop("toJSON", Fun("throw"))>>
                            \o Link("cause", l))
      [] t = "native" -> Obj("error", ErrorOwn \o HiddenLink("cause", l))
      [] t = "base" -> Obj("base", Link("detail", l) \o ErrorOwn)
      [] t = "coll" -> Coll("errors", IF l = 0 THEN <<>> ELSE <<Ref(l)>>)
      [] OTHER -> Obj("plain", <<Prop("code", Num(a)), Prop("message", Str("Detail"))>>
                                 \o Link("cause", l))

\* The heap of the test 'hacker attack': a wrapper with a message getter
\* that raises, self = error, empty = {error}, obj = {some: 123, error}.
HackerHeap ==
    <<Obj("wrapper", <<Prop("name", Str("HackerError")), Thrower("message"),
                       Prop("self", Ref(1)), Prop("empty", Ref(2)), Prop("obj", Ref(3))>>),
      Obj("plain", <<Prop("error", Ref(1))>>),
      Obj("plain", <<Prop("some", Num(123)), Prop("error", Ref(1))>>)>>

\* The kinds of object of a graph of causes.
CauseTemplates == {"plain", "wrapper", "error", "base"}

\* The object of kind t at address a of a graph of causes, linked to l.
CauseShape(t, a, l) ==
    CASE t = "error" -> Obj("error", ErrorOwn \o HiddenLink("cause", l))
      [] t = "base" -> Obj("base", Link("detail", l) \o ErrorOwn)
      [] OTHER -> Obj(t, <<Prop("code", Num(a)), Prop("message", Str("Detail"))>>
                           \o Link("cause", l))

\* The choices of a template of Ts and of a link to an object of the heap
\* (0: no link) for each of n objects.
Choices(Ts, n) == [1..n -> [t : Ts, l : 0..n]]

\* The heap of n objects whose object at address a has the shape of the
\* template and the link c chooses for it.
HeapOf(Ts, n, c) ==
    [a \in 1..n |-> IF Ts = CauseTemplates
                    THEN CauseShape(c[a].t, a, c[a].l)
                    ELSE Shape(c[a].t, a, c[a].l)]

-----------------------------------------------------------------------------
(* Spec: the entry points on heaps of hostile and aliased objects.         *)

Init ==
    /\ \/ \E n \in 1..MaxObjs :
            \E c \in Choices(Templates, n) :
              heap = HeapOf(Templates, n, c) /\ WellFormed(heap)
       \/ heap = HackerHeap
    /\ ret = NoCall

Args == {Ref(a) : a \in Addrs(heap)} \cup Prims

Next ==
    \/ \E v \in Args : ErrorToString(v)
    \/ \E v \in Args : ErrorToJsonLike(v)
    \/ \E a \in Addrs(heap) : ErrorDetailToString(Ref(a))
    \/ \E a \in Addrs(heap) : ErrorDetailToJsonLike(Ref(a))
    \/ \E a \in Addrs(heap) : ObjToString(Ref(a))
    \/ \E a \in Addrs(heap) : HasToJSON(heap, Ref(a)) /\ ObjToJSON(Ref(a))

Spec == Init /\ [][Next]_vars

-----------------------------------------------------------------------------
(* SpecCause: the renderers on graphs of details, wrappers, BaseError      *)
(* instances and native errors linked through cause.                       *)

InitCause ==
    /\ \E n \in 1..MaxChain :
         \E c \in Choices(CauseTemplates, n) :
           heap = HeapOf(CauseTemplates, n, c) /\ WellFormed(heap)
    /\ ret = NoCall

\* One call per graph: the renderers leave the heap as it is, so a second
\* call returns what it returns as the first.
NextCause ==
    \/ \E a \in Addrs(heap) : ret = NoCall /\ ErrorToString(Ref(a))
    \/ \E a \in Addrs(heap) : ret = NoCall /\ ErrorDetailToString(Ref(a))
    \/ \E a \in Addrs(heap) : ret = NoCall /\ ErrorToJsonLike(Ref(a))

SpecCause == InitCause /\ [][NextCause]_vars

-----------------------------------------------------------------------------
(* SpecOrder: the renderers on one detail whose fields come in any order,  *)
(* one of them at most behind a getter that raises.                        *)

\* The field names of a drawn detail: the known fields, stack, cause and two
\* fields the library does not know.
FieldNames == {"name", "code", "message", "level", "stack", "cause", "extra", "more"}

\* The value a drawn detail holds under a name.
Sample(name) ==
    CASE name = "name" -> Str("ValueError")
      [] name = "code" -> Num(1)
      [] name = "message" -> Str("base error")
      [] name = "level" -> Str("warning")
      [] name = "stack" -> Str("Error at f")
      [] name = "cause" -> Str("root cause")
      [] name = "extra" -> Num(123)
      [] name \in {"toString", "toJSON"} -> Fun("text")
      [] OTHER -> Bool(TRUE)

\* The sequences of at most n distinct elements of S.
SeqsOf(S, n) ==
    UNION {{s \in [1..k -> S] : \A i, j \in 1..k : i # j => s[i] # s[j]} : k \in 0..n}

\* An object of the given kind with the named fields in this order, field t
\* (if any) behind a getter that raises.
DetailOf(kind, names, t) ==
    Obj(kind, [i \in 1..Len(names) |->
                 IF i = t THEN Thrower(names[i]) ELSE Prop(names[i], Sample(names[i]))])

InitOrder ==
    /\ \E kind \in {"plain", "wrapper"} :
         \E names \in SeqsOf(FieldNames, MaxFields) :
           \E t \in 0..Len(names) : heap = <<DetailOf(kind, names, t)>>
    /\ ret = NoCall

NextOrder ==
    \/ ErrorToString(Ref(1))
    \/ ErrorDetailToString(Ref(1))
    \/ ErrorToJsonLike(Ref(1))
    \/ ErrorDetailToJsonLike(Ref(1))

SpecOrder == InitOrder /\ [][NextOrder]_vars

-----------------------------------------------------------------------------
(* SpecCreate: createErrorLike on details, on wrappers and on values that  *)
(* are no objects.                                                         *)

\* The field names of a detail handed to createErrorLike.
CreateNames == {"name", "message", "stack"}

InitCreate ==
    /\ \E kind \in {"plain", "wrapper"} :
         \E names \in SeqsOf(CreateNames, MaxFields) :
           \E t \in 0..Len(names) : heap = <<DetailOf(kind, names, t)>>
    /\ ret = NoCall

NextCreate == \E v \in Args : \E captureStack \in BOOLEAN : CreateErrorLike(v, captureStack)

SpecCreate == InitCreate /\ [][NextCreate]_vars

-----------------------------------------------------------------------------
(* SpecColl: collections built from and grown by raw values, details,      *)
(* wrappers and BaseError instances.                                       *)

\* The objects handed to the collections: a detail, a wrapper, a BaseError
\* whose detail is the wrapper, a detail with a getter that raises.
Pool ==
    <<Obj("plain", <<Prop("code", Num(1)), Prop("message", Str("Detail"))>>),
      Obj("wrapper", <<Prop("name", Str("MyLib.Error1"))>>),
      Obj("base", <<Prop("detail", Ref(2))>> \o ErrorOwn),
      Obj("plain", <<Prop("name", Str("Test")), Thrower("message")>>)>>

\* The items handed to a collection.
Items == {Undef, Str("raw")} \cup {Ref(a) : a \in 1..Len(Pool)}

\* The arguments of one call: no item, one item, two items.
ItemLists == {<<>>} \cup {<<x>> : x \in Items} \cup {<<x, y>> : x, y \in Items}

\* The collections of a heap.
Colls(h) == {a \in Addrs(h) : h[a].kind = "collection"}

InitColl ==
    /\ heap = Pool
    /\ ret = NoCall

NextColl ==
    \/ \E prefix \in {Undef, Null, Str("warnings")} :
         \E iterable \in ItemLists : NewCollection(prefix, iterable)
    \/ \E c \in Colls(heap) : \E items \in ItemLists : Push(c, items)
    \/ \E c \in Colls(heap) : \E items \in ItemLists : Unshift(c, items)
    \/ \E c \in Colls(heap) : \E start \in -1..1 :
         \E deleteCount \in {Undef, Num(1), Num(2)} :
           \E items \in ItemLists : Splice(c, start, deleteCount, items)
    \/ \E c \in Colls(heap) : ObjToString(Ref(c))
    \/ \E c \in Colls(heap) : ObjToJSON(Ref(c))

SpecColl == InitColl /\ [][NextColl]_vars

-----------------------------------------------------------------------------
(* SpecAggregate: the string renderers on a detail one of whose fields     *)
(* holds a collection.                                                     *)

\* The field names of an aggregate: errors holds the collection.
AggregateNames == {"code", "name", "message", "errors", "stack"}

\* An object of the given kind with the named fields in this order, the
\* collection at address c under errors.
AggregateOf(kind, names, c) ==
    Obj(kind, [i \in 1..Len(names) |->
                 Prop(names[i], IF names[i] = "errors" THEN Ref(c) ELSE Sample(names[i]))])

\* Two wrappers, a collection of some of them and the aggregate.
InitAggregate ==
    /\ \E prefix \in {"errors", "warnings"} :
         \E items \in SeqsOf({Ref(1), Ref(2)}, 2) :
           \E kind \in {"plain", "wrapper"} :
             \E names \in SeqsOf(AggregateNames, MaxFields) :
               heap = <<Obj("wrapper", <<Prop("name", Str("MyLib.Error1"))>>),
                        Obj("wrapper", <<Prop("code", Num(2)), Prop("message", Str("Detail"))>>),
                        Coll(prefix, items),
                        AggregateOf(kind, names, 3)>>
    /\ ret = NoCall

NextAggregate ==
    \/ ErrorToString(Ref(4))
    \/ ErrorDetailToString(Ref(4))
    \/ ObjToString(Ref(4))

SpecAggregate == InitAggregate /\ [][NextAggregate]_vars

-----------------------------------------------------------------------------
(* SpecEnsure: ensureErrorLike and the BaseError constructor on details,   *)
(* on wrappers, on BaseError instances and on values that are no objects.  *)

\* The field names of a detail handed to them, in the order the detail has
\* them; toString and toJSON hold functions of the detail's own.
EnsureNames == <<"name", "message", "stack", "toString", "toJSON">>

\* The details of at most n fields, in that order.
Picked(n) ==
    {SelectSeq(EnsureNames, LAMBDA x : x \in S) :
       S \in {T \in SUBSET {EnsureNames[i] : i \in 1..Len(EnsureNames)} : Cardinality(T) <= n}}

\* The BaseError instances of a heap.
Bases(h) == {a \in Addrs(h) : h[a].kind = "base"}

\* One detail, one of its fields at most behind a getter that raises.
InitEnsure ==
    /\ \E kind \in {"plain", "wrapper"} :
         \E names \in Picked(MaxFields) :
           \E t \in 0..Len(names) : heap = <<DetailOf(kind, names, t)>>
    /\ ret = NoCall

\* The values handed to them: the objects of the heap, undefined, a string.
EnsureArgs == {Ref(a) : a \in Addrs(heap)} \cup {Undef, Str("Just a string")}

NextEnsure ==
    \/ \E v \in EnsureArgs : EnsureErrorLike(v)
    \/ \E v \in EnsureArgs : NewBaseError(v)
    \/ \E b \in Bases(heap) : ObjToString(Ref(b))
    \/ \E b \in Bases(heap) : ObjToJSON(Ref(b))

SpecEnsure == InitEnsure /\ [][NextEnsure]_vars

-----------------------------------------------------------------------------
(* SpecJson: the JSON renderers on a detail whose code and known fields    *)
(* hold any value, on a native error with a toJSON of its own and on       *)
(* values that are no objects.                                             *)

\* The values a detail holds under code: {} is the object at address 2.
Codes ==
    {Num(0), Num(1), Str("C1"), Str(""), NumX("1.5"), NumX("NaN"), NumX("Infinity"),
     NumX("9007199254740992"), Bool(TRUE), Null, Undef, Ref(2)}

\* The values it holds under name, message and level.
Strings(name) == {Sample(name), Str("")}

\* The choices that are no value: the field is absent, the field is a
\* getter that raises.
Absent == Val("absent", <<>>, 0)

Raising == Val("raising", <<>>, 0)

\* The field of a drawn detail under a choice.
Field(name, choice) ==
    IF choice = Absent THEN <<>>
    ELSE IF choice = Raising THEN <<Thrower(name)>>
    ELSE <<Prop(name, choice)>>

\* What the toJSON of the native error returns: the object at address 2
\* ({}), the one at address 3, a string; absent for an error without one.
ToJSONs == {Absent, FunRef(2), FunRef(3), Fun("text")}

InitJson ==
    /\ \E kind \in {"plain", "wrapper"} :
         \E code \in Codes \cup {Absent, Raising} :
           \E name \in Strings("name") \cup {Absent} :
             \E message \in Strings("message") \cup {Absent} :
               \E level \in Strings("level") \cup {Absent} :
                 \E toJSON \in ToJSONs :
                   heap = <<Obj(kind, Field("message", message) \o Field("code", code)
                                        \o Field("name", name) \o Field("level", level)),
                            Obj("plain", <<>>),
                            Obj("plain", <<Prop("custom", Num(123)), Prop("name", Str("Custom"))>>),
                            Obj("error", ErrorOwn \o Field("toJSON", toJSON))>>
    /\ ret = NoCall

\* The values that are no objects handed to errorToJsonLike.
JsonPrims == Prims \cup {NumX("NaN")}

NextJson ==
    \/ ErrorDetailToJsonLike(Ref(1))
    \/ \E a \in {1, 4} : ErrorToJsonLike(Ref(a))
    \/ \E v \in JsonPrims : ErrorToJsonLike(v)
    \/ Reserialize

SpecJson == InitJson /\ [][NextJson]_vars

-----------------------------------------------------------------------------
(* SpecNative: the string renderers on a native error whose stack, name,   *)
(* message, toString and cause vary, alone and as the cause of a detail    *)
(* and of another native error.                                            *)

\* The own property of a native error under a choice: not enumerable.
HiddenField(name, choice) ==
    IF choice = Absent THEN <<>>
    ELSE IF choice = Raising THEN <<[Thrower(name) EXCEPT !.enum = FALSE]>>
    ELSE <<Hidden(name, choice)>>

\* The stacks of the native error: none, a getter that raises, '', a text.
NativeStacks == {Absent, Raising, Str(""), Str("Error: Root cause at root")}

\* Its own toString: none (Error.prototype.toString), one that raises, one
\* that returns '', one that returns a text.
NativeToStrings == {Absent, Fun("throw"), Fun("empty"), Fun("text")}

\* Its cause: none, a string, the native error at address 3, its parent.
NativeCauses == {Absent, Str("String cause"), Ref(3), Ref(1)}

\* The parent that holds the native error at address 2 as its cause.
ParentOf(kind) ==
    IF kind = "error"
    THEN Obj("error", <<Hidden("stack", Str("Error: Native error at func")),
                        Hidden("message", Str("Native error")),
                        Hidden("cause", Ref(2))>>)
    ELSE Obj(kind, <<Prop("code", Num(1)), Prop("message", Str("Detail")),
                     Prop("stack", Str("Error: Detail message at someFunc")),
                     Prop("cause", Ref(2))>>)

InitNative ==
    /\ \E kind \in {"plain", "wrapper", "error"} :
         \E stack \in NativeStacks :
           \E name \in {Absent, Str("")} :
             \E message \in {Absent, Str("Root cause")} :
               \E toString \in NativeToStrings :
                 \E cause \in NativeCauses :
                   heap = <<ParentOf(kind),
                            Obj("error", HiddenField("stack", stack)
                                           \o HiddenField("name", name)
                                           \o HiddenField("message", message)
                                           \o HiddenField("toString", toString)
                                           \o HiddenField("cause", cause)),
                            Obj("error", ErrorOwn)>>
    /\ ret = NoCall

NextNative ==
    \/ \E a \in 1..3 : ErrorToString(Ref(a))
    \/ ErrorDetailToString(Ref(1))

SpecNative == InitNative /\ [][NextNative]_vars

-----------------------------------------------------------------------------
(* SpecNested: the string renderers on a detail whose unknown field custom *)
(* holds an object that links to nothing.                                  *)

\* The objects the field holds: {a: 1}, {}, a wrapper, a native error, an
\* object with a toString of its own.
InnerObjects ==
    {Obj("plain", <<Prop("a", Num(1))>>),
     Obj("plain", <<>>),
     Obj("wrapper", <<Prop("name", Str("Inner")), Prop("message", Str("m"))>>),
     Obj("error", ErrorOwn),
     Obj("plain", <<Prop("a", Num(1)), Prop("toString", Fun("text"))>>)}

InitNested ==
    /\ \E kind \in {"plain", "wrapper"} :
         \E cause \in {Absent, Str("String cause"), Ref(2)} :
           \E custom \in {Ref(2), Str("value")} :
             \E more \in {Absent, Str("text")} :
               \E inner \in InnerObjects :
                 heap = <<Obj(kind, <<Prop("code", Num(1))>> \o Field("cause", cause)
                                      \o Field("custom", custom) \o Field("more", more)),
                          inner>>
    /\ ret = NoCall

NextNested ==
    \/ \E a \in 1..2 : ErrorToString(Ref(a))
    \/ ErrorDetailToString(Ref(1))
    \/ ObjToString(Ref(1))

SpecNested == InitNested /\ [][NextNested]_vars

-----------------------------------------------------------------------------
(* SpecHidden: the JSON renderers on a detail each of whose fields is      *)
(* absent, enumerable or not enumerable.                                   *)

\* How a field is held: not at all, enumerable, not enumerable.
Holdings == {"absent", "enumerable", "hidden"}

\* The field of a drawn detail under a holding.
HeldField(name, val, holding) ==
    IF holding = "absent" THEN <<>>
    ELSE IF holding = "hidden" THEN <<Hidden(name, val)>>
    ELSE <<Prop(name, val)>>

InitHidden ==
    /\ \E kind \in {"plain", "wrapper", "error"} :
         \E code \in {"absent", "enumerable"} :
           \E name \in Holdings : \E message \in Holdings : \E stack \in Holdings :
             \E cause \in Holdings : \E meta \in Holdings :
               heap = <<Obj(kind, HeldField("code", Num(1), code)
                                    \o HeldField("name", Str("SomeError"), name)
                                    \o HeldField("message", Str("..."), message)
                                    \o HeldField("_meta", Sym("private"), meta)
                                    \o HeldField("stack", Str("SomeError: ... at"), stack)
                                    \o HeldField("cause", Ref(2), cause)),
                        Obj("plain", <<Prop("code", Num(2))>>)>>
    /\ ret = NoCall

NextHidden ==
    \/ ErrorDetailToJsonLike(Ref(1))
    \/ \E a \in 1..2 : ErrorToJsonLike(Ref(a))
    \/ HasToJSON(heap, Ref(1)) /\ ObjToJSON(Ref(1))

SpecHidden == InitHidden /\ [][NextHidden]_vars

-----------------------------------------------------------------------------
(* SpecEntry: the JSON entry points for native errors and for details on   *)
(* the native errors of SpecNative and on values that are no objects.      *)

\* The values that are no objects handed to the two entry points.
EntryPrims == (Prims \ {Fun("text")}) \cup {Bool(FALSE), NumX("NaN")}

NextEntry ==
    \/ \E v \in EntryPrims : NativeErrorToJsonLike(v)
    \/ \E v \in EntryPrims : ErrorDetailToJsonLike(v)
    \/ \E a \in 1..3 : NativeErrorToJsonLike(Ref(a))
    \/ \E a \in 1..3 : ErrorDetailToJsonLike(Ref(a))

SpecEntry == InitNative /\ [][NextEntry]_vars

-----------------------------------------------------------------------------
(* SpecCycle: the entry points on a wrapper W that holds a collection C    *)
(* under cause or under errors, where C holds W, another wrapper X, or     *)
(* both; W and X may have the same wrapper Y as their cause.               *)

\* The elements of C: W is at address 1, the other wrapper at address 3.
CycleItems == {<<Ref(1)>>, <<Ref(1), Ref(3)>>, <<Ref(3), Ref(1)>>, <<Ref(3)>>}

InitCycle ==
    /\ \E field \in {"cause", "errors"} :
         \E code \in {Absent, Num(1)} :
           \E prefix \in {"errors", "warnings"} :
             \E items \in CycleItems :
               \E l \in {0, 1, 2, 4} :
                 \E w \in (IF field = "errors" THEN {0, 4} ELSE {0}) :
                   heap = <<Obj("wrapper", Field("code", code)
                                             \o <<Prop("name", Str("MyLib.Error1"))>>
                                             \o Link("cause", w)
                                             \o <<Prop(field, Ref(2))>>),
                            Coll(prefix, items),
                            Obj("wrapper", <<Prop("name", Str("MyLib.Error2"))>>
                                             \o Link("cause", l)),
                            Obj("wrapper", <<Prop("name", Str("MyLib.Error3"))>>)>>
    /\ ret = NoCall

NextCycle ==
    \/ \E a \in 1..3 : ErrorToString(Ref(a))
    \/ \E a \in 1..3 : ErrorToJsonLike(Ref(a))
    \/ \E a \in {1, 3} : ErrorDetailToString(Ref(a))
    \/ \E a \in {1, 3} : ErrorDetailToJsonLike(Ref(a))

SpecCycle == InitCycle /\ [][NextCycle]_vars

-----------------------------------------------------------------------------
(* SpecShared: the JSON renderers on a detail whose fields extra, more and *)
(* cause hold objects of a graph without cycles, the same one more than    *)
(* once.                                                                   *)

\* What a field of the detail holds: nothing, a number, the object X at
\* address 2, the object Y at address 3.
SharedValues == {Absent, Num(123), Ref(2), Ref(3)}

InitShared ==
    /\ \E kind \in {"plain", "wrapper"} :
         \E extra \in SharedValues : \E more \in SharedValues : \E cause \in SharedValues :
           \E inner \in {Absent, Ref(3)} :
             heap = <<Obj(kind, <<Prop("code", Num(1))>> \o Field("cause", cause)
                                  \o Field("extra", extra) \o Field("more", more)),
                      Obj("plain", <<Prop("code", Num(2))>> \o Field("inner", inner)),
                      Obj("plain", <<Prop("some", Num(123))>>)>>
    /\ ret = NoCall

NextShared ==
    \/ \E a \in 1..3 : ErrorToJsonLike(Ref(a))
    \/ ErrorDetailToJsonLike(Ref(1))
    \/ HasToJSON(heap, Ref(1)) /\ ObjToJSON(Ref(1))

SpecShared == InitShared /\ [][NextShared]_vars

-----------------------------------------------------------------------------
(* SpecSplice: splice(start) on a collection of up to MaxLen of three      *)
(* wrappers.                                                               *)

\* The wrappers a collection of SpecSplice holds.
Wrappers ==
    <<Obj("wrapper", <<Prop("name", Str("MyLib.Error1"))>>),
      Obj("wrapper", <<Prop("name", Str("MyLib.Error2"))>>),
      Obj("wrapper", <<Prop("code", Num(1)), Prop("message", Str("Detail"))>>)>>

InitSplice ==
    /\ \E prefix \in {"errors", "warnings"} :
         \E k \in 0..MaxLen :
           \E items \in [1..k -> {Ref(a) : a \in 1..Len(Wrappers)}] :
             heap = Append(Wrappers, Coll(prefix, items))
    /\ ret = NoCall

NextSplice ==
    \/ \E c \in Colls(heap) : \E start \in -2..3 : SpliceFrom(c, start)
    \/ \E c \in Colls(heap) : ObjToString(Ref(c))

SpecSplice == InitSplice /\ [][NextSplice]_vars

-----------------------------------------------------------------------------
(* Reading a state: the objects an argument reaches, the lines of a text.  *)

\* The addresses the values of an object's properties and elements hold.
Links(o) ==
    {o.props[i].val.n : i \in {j \in 1..Len(o.props) : IsObj(o.props[j].val)}}
      \cup {o.items[i].n : i \in {j \in 1..Len(o.items) : IsObj(o.items[j])}}

RECURSIVE Graph(_, _)
\* The objects reachable from the objects of S.
Graph(h, S) ==
    IF UNION {Links(h[a]) : a \in S} \subseteq S THEN S
    ELSE Graph(h, S \cup UNION {Links(h[a]) : a \in S})

\* The object at address a holds a reference to b under name.
Holds(h, a, name, b) ==
    /\ name \in PropNames(h[a])
    /\ PropOf(h[a], name).get = "data"
    /\ PropOf(h[a], name).val = Ref(b)

\* How many lines of text are the line `${name}: ${value}`.
CountLine(text, name, value) ==
    Cardinality({i \in 1..Len(text) :
                   /\ i = 1 \/ text[i - 1] = "\n"
                   /\ i + 2 <= Len(text)
                   /\ SubSeq(text, i, i + 2) = <<name, ": ", value>>
                   /\ i + 2 = Len(text) \/ text[i + 3] = "\n"})

\* The field a line of text starts: the name before ': ', stack and cause
\* for their headers, '' for a line that continues a value.
KeyAt(text, i) ==
    IF ~(i = 1 \/ text[i - 1] = "\n") THEN ""
    ELSE IF text[i] = "stack:" THEN "stack"
    ELSE IF text[i] = "cause:" THEN "cause"
    ELSE IF i < Len(text) /\ text[i + 1] = ": " THEN text[i]
    ELSE ""

\* The fields of the lines of a text, in the order of the lines.
LineKeys(text) == SelectSeq([i \in 1..Len(text) |-> KeyAt(text, i)], LAMBDA k : k # "")

\* The place of a field's line: the known fields, the remaining fields,
\* stack, cause.
Rank(k) ==
    CASE k = "name" -> 1 [] k = "code" -> 2 [] k = "message" -> 3 [] k = "level" -> 4
      [] k = "stack" -> 6 [] k = "cause" -> 7 [] OTHER -> 5

\* The position of the property name among the own properties of o.
Place(o, name) == CHOOSE i \in 1..Len(o.props) : o.props[i].name = name

\* The names of the properties of o that can be read, and of those behind a
\* getter that raises.
Readable(o) == {o.props[i].name : i \in {j \in 1..Len(o.props) : o.props[j].get = "data"}}

Unreadable(o) == {o.props[i].name : i \in {j \in 1..Len(o.props) : o.props[j].get = "throw"}}

\* The fields a render of either mode holds: the fields of the lines of a
\* text, the keys of a mapping.
Rendered(out) ==
    IF out.t = "map" THEN {out.kids[i].k : i \in 1..Len(out.kids)}
    ELSE {LineKeys(out.s)[i] : i \in 1..Len(LineKeys(out.s))}

-----------------------------------------------------------------------------
(* Properties *)

\* C1: errorToString and errorToJsonLike return a value for every input and
\* never raise an exception to the caller.
C1_EntryPointsNeverRaise ==
    ret.op \in {"errorToString", "errorToJsonLike"} => ~ret.ex

\* An entry point was handed a collection one of whose elements has a
\* toString or toJSON of its own, and raised.
C1_CollectionElementRaised ==
    /\ ret.op \in {"errorToString", "errorToJsonLike"}
    /\ ret.ex
    /\ IsObj(ret.arg)
    /\ heap[ret.arg.n].kind = "collection"

\* C2: on a graph of details, wrappers, BaseError instances and native errors
\* linked through cause, errorToString, errorDetailToString and
\* errorToJsonLike return, after entering a renderer at most once per object
\* of the graph, plus one.
C2_DescentsBounded ==
    ret.op \in {"errorToString", "errorDetailToString", "errorToJsonLike"} =>
        /\ ~ret.ex
        /\ ret.n <= Cardinality(Graph(heap, {ret.arg.n})) + 1

\* A cycle of causes through every object of a largest heap was rendered, and the
\* renderer was entered once per object, plus one.
C2_CycleRendered ==
    /\ ret.op \in {"errorToString", "errorDetailToString", "errorToJsonLike"}
    /\ Len(heap) = MaxChain
    /\ \A a \in Addrs(heap) : Holds(heap, a, "cause", (a % Len(heap)) + 1)
    /\ ret.n = Len(heap) + 1

\* Details A and B with A.cause = B and B.cause = A.
CauseCycle(h, a, b) ==
    /\ a # b
    /\ h[a].kind \in {"plain", "wrapper"} /\ h[b].kind \in {"plain", "wrapper"}
    /\ Holds(h, a, "cause", b)
    /\ Holds(h, b, "cause", a)

\* C3: for A.cause = B and B.cause = A, the text of A holds B's fields once
\* and A's own fields once.
C3_OwnFieldsOnce ==
    \A b \in Addrs(heap) :
        /\ ret.op \in {"errorToString", "errorDetailToString"}
        /\ IsObj(ret.arg)
        /\ CauseCycle(heap, ret.arg.n, b)
        => /\ CountLine(ret.out.s, "code", NumStr(b)) = 1
           /\ CountLine(ret.out.s, "code", NumStr(ret.arg.n)) = 1

\* A was rendered with A.cause = B and B.cause = A, and the text holds A's
\* code line twice.
C3_OwnFieldsTwice ==
    \E b \in Addrs(heap) :
        /\ ret.op \in {"errorToString", "errorDetailToString"}
        /\ IsObj(ret.arg)
        /\ CauseCycle(heap, ret.arg.n, b)
        /\ CountLine(ret.out.s, "code", NumStr(b)) = 1
        /\ CountLine(ret.out.s, "code", NumStr(ret.arg.n)) = 2

\* The result the test 'hacker attack' expects.
HackerJson ==
    Map(<<[k |-> "name", v |-> Str("HackerError")],
          [k |-> "obj", v |-> Map(<<[k |-> "some", v |-> Num(123)]>>)]>>)

\* C4: in JSON mode a field whose value is the object rendered at the top
\* level produces no key; the wrapper of the test 'hacker attack' renders
\* as {name: 'HackerError', obj: {some: 123}}.
C4_SelfAliasNoKey ==
    /\ ret.op \in {"errorToJsonLike", "toJSON"} /\ IsObj(ret.arg)
       /\ Holds(heap, ret.arg.n, "self", ret.arg.n)
       => ~HasKey(ret.out.kids, "self")
    /\ ret.op \in {"errorToJsonLike", "toJSON"} /\ heap = HackerHeap /\ ret.arg = Ref(1)
       => ret.out = HackerJson

\* The wrapper of the test 'hacker attack' was rendered and the result holds
\* the wrapper again under the key self, and no key obj.
C4_HackerSelfKey ==
    /\ ret.op \in {"errorToJsonLike", "toJSON"}
    /\ heap = HackerHeap
    /\ ret.arg = Ref(1)
    /\ HasKey(ret.out.kids, "self")
    /\ KeyVal(ret.out.kids, "self") = HackerJson
    /\ ~HasKey(ret.out.kids, "obj")

\* The wrapper at a holds itself, or a wrapper that holds it, in a field the
\* library does not know.
Aliased(h, a) ==
    /\ h[a].kind = "wrapper"
    /\ \E b \in Addrs(h) :
         /\ h[b].kind = "wrapper"
         /\ Holds(h, a, "self", b)
         /\ Holds(h, b, "self", a)

\* C5: the string rendering of a wrapper that aliases itself through an
\* unknown field returns after entering a renderer at most once per object
\* of the graph, plus one.
C5_AliasDescentsBounded ==
    ret.op \in {"errorToString", "toString"} /\ IsObj(ret.arg) /\ Aliased(heap, ret.arg.n) =>
        /\ ~ret.ex
        /\ ret.n <= Cardinality(Graph(heap, {ret.arg.n})) + 1

\* A wrapper whose field self is the wrapper itself was rendered, and the
\* renderer was entered until the call stack was full.
C5_AliasFillsStack ==
    /\ ret.op \in {"errorToString", "toString"}
    /\ IsObj(ret.arg)
    /\ Holds(heap, ret.arg.n, "self", ret.arg.n)
    /\ Graph(heap, {ret.arg.n}) = {ret.arg.n}
    /\ ret.n >= StackLimit

C7_CodeBeforeName ==
    ret.op \in {"errorToString", "errorDetailToString"} =>
        \A i, j \in 1..Len(LineKeys(ret.out.s)) :
            LineKeys(ret.out.s)[i] = "code" /\ LineKeys(ret.out.s)[j] = "name" => i < j

\* A detail with a code and a name was rendered, and the name line comes
\* before the code line.
C7_NameBeforeCode ==
    /\ ret.op \in {"errorToString", "errorDetailToString"}
    /\ \E i, j \in 1..Len(LineKeys(ret.out.s)) :
         /\ LineKeys(ret.out.s)[i] = "name"
         /\ LineKeys(ret.out.s)[j] = "code"
         /\ i < j

\* C8: a field of a detail behind a getter that raises is absent from the
\* render in both modes, every field that can be read is rendered, and the
\* call does not raise.
C8_ThrowingFieldAbsent ==
    ret.op \in {"errorToString", "errorDetailToString", "errorToJsonLike",
                "errorDetailToJsonLike"} =>
        /\ ~ret.ex
        /\ Rendered(ret.out) \cap Unreadable(heap[1]) = {}
        /\ Readable(heap[1]) \subseteq Rendered(ret.out)

\* A detail with a field behind a getter that raises, ahead of fields that
\* can be read, was rendered to JSON.
C8_ThrowingFieldRendered ==
    /\ ret.op = "errorToJsonLike"
    /\ Len(heap[1].props) = MaxFields
    /\ heap[1].props[1].get = "throw"
    /\ Rendered(ret.out) = Readable(heap[1])

\* C9: createErrorLike does not raise when a field of its input has a getter
\* that raises: it returns a wrapper of the fields that can be read.
C9_CreateNeverRaises ==
    ret.op = "createErrorLike" /\ IsObj(ret.arg) =>
        /\ ~ret.ex
        /\ isErrorLike(heap, ret.out)
        /\ Unreadable(heap[ret.out.n]) = {}
        /\ Readable(heap[ret.arg.n]) \subseteq Readable(heap[ret.out.n])

\* createErrorLike was handed the detail {name: 'Test', get message() {
\* throw 0 }} and raised.
C9_CreateRaised ==
    /\ ret.op = "createErrorLike"
    /\ ret.ex
    /\ IsObj(ret.arg)
    /\ ~ret.flag
    /\ heap[ret.arg.n] = Obj("plain", <<Prop("name", Sample("name")), Thrower("message")>>)

\* C10: for an input that is no object (a string, a number, a boolean,
\* undefined, null), createErrorLike returns a wrapper whose message is
\* 'IErrorLike was not created', whose level is 'error' and whose cause is
\* the input; the result satisfies isErrorLike.
C10_FallbackWrapper ==
    /\ ret.op = "createErrorLike"
    /\ ret.arg.t \in {"string", "number", "boolean", "undefined", "null"}
    => /\ ~ret.ex
       /\ isErrorLike(heap, ret.out)
       /\ GetProp(heap, ret.out, "message").v = Str("IErrorLike was not created")
       /\ GetProp(heap, ret.out, "level").v = Str("error")
       /\ "cause" \in PropNames(heap[ret.out.n])
       /\ GetProp(heap, ret.out, "cause").v = ret.arg

\* createErrorLike was handed a string and returned a wrapper with the
\* string as its cause.
C10_StringWrapped ==
    /\ ret.op = "createErrorLike"
    /\ ret.arg = Str("Just a string")
    /\ isErrorLike(heap, ret.out)
    /\ GetProp(heap, ret.out, "cause").v = Str("Just a string")

\* The collection a call of the constructor or of a method has filled.
Filled == IF ret.op = "new" THEN ret.out.n ELSE ret.arg.n

\* What ensureErrorLike stores for an item that is a wrapper or a BaseError.
StoredFor(h, item) ==
    IF h[item.n].kind = "base" THEN PropOf(h[item.n], "detail").val ELSE item

\* C11: after construction from any iterable and after any push, unshift and
\* splice, every element of every collection, the ones splice returns
\* included, satisfies isErrorLike; an item that already is a wrapper is
\* stored by identity (the detail of an item that is a BaseError).
C11_Homogeneous ==
    /\ \A c \in Colls(heap) :
         \A i \in 1..Len(heap[c].items) : isErrorLike(heap, heap[c].items[i])
    /\ (ret.op \in {"new", "push", "unshift", "splice"} /\ ~ret.ex) =>
         \A i \in 1..Len(ret.items) :
           (IsObj(ret.items[i]) /\ heap[ret.items[i].n].kind \in {"wrapper", "base"}) =>
             InSeq(StoredFor(heap, ret.items[i]), heap[Filled].items)
    /\ (ret.op = "splice" /\ ~ret.ex) =>
         /\ ret.out.n \in Colls(heap)
         /\ heap[ret.out.n].prefix = heap[ret.arg.n].prefix

\* The constructor was handed a raw value and a wrapper: it made a wrapper
\* of the first and stored the second as it is.
C11_RawAndWrapperStored ==
    /\ ret.op = "new" /\ ~ret.ex
    /\ ret.items = <<Str("raw"), Ref(2)>>
    /\ heap[ret.out.n].items[1].n > ret.out.n
    /\ heap[ret.out.n].items[2] = Ref(2)

RECURSIVE Headed(_, _, _, _)
\* The header `p.i:` and the text of element i, for every element from i on.
Headed(h, c, i, p) ==
    IF i > Len(h[c].items) THEN <<>>
    ELSE <<<<p \o "." \o NumStr(i - 1) \o ":">>, CallToString(h, h[c].items[i], 1).v.s>>
           \o Headed(h, c, i + 1, p)

\* The array of what toJSON() of the elements returns.
Jsons(h, c) ==
    [t |-> "array", s |-> <<>>, n |-> 0,
     kids |-> [i \in 1..Len(h[c].items) |->
                 [k |-> NumStr(i - 1), v |-> CallToJSON(h, h[c].items[i], 1).v]]]

\* C12: toString() of a collection with prefix p is the newline-join of the
\* header `p.i:` and the string rendering of element i, for each index in
\* order; toJSON() is the mapping with the single key p that holds the array
\* of the elements' toJSON(); a prefix that is no string becomes 'errors'.
C12_CollectionRendering ==
    /\ (ret.op = "toString" /\ ~ret.ex) =>
         ret.out = Text(Join(Headed(heap, ret.arg.n, 1, heap[ret.arg.n].prefix)))
    /\ (ret.op = "toJSON" /\ ~ret.ex) =>
         ret.out = Map(<<[k |-> heap[ret.arg.n].prefix, v |-> Jsons(heap, ret.arg.n)]>>)
    /\ (ret.op = "new" /\ ~ret.ex) =>
         heap[ret.out.n].prefix = (IF ret.arg.t = "string" THEN ret.arg.s[1] ELSE "errors")

\* A collection built with no prefix, of two elements, was rendered to text
\* under the headers errors.0: and errors.1:.
C12_TwoBlocksRendered ==
    /\ ret.op = "toString" /\ ~ret.ex
    /\ heap[ret.arg.n].prefix = "errors"
    /\ Len(heap[ret.arg.n].items) = 2
    /\ ret.out.s[1] = "errors.0:"
    /\ InSeq("errors.1:", ret.out.s)

\* The aggregate of SpecAggregate was rendered to text, and it holds a
\* collection with prefix 'errors' and at least one element under errors.
AggregateRendered ==
    /\ ret.op \in {"errorToString", "errorDetailToString"} /\ ~ret.ex
    /\ "errors" \in PropNames(heap[4])
    /\ heap[3].prefix = "errors"
    /\ heap[3].items # <<>>

\* The positions of a text that hold the atom a.
At(text, a) == {i \in 1..Len(text) : text[i] = a}

\* C13: in the string rendering of a detail a field of which holds a
\* collection with prefix 'errors', every header errors.i: starts a line of
\* its own, with no field label `errors: ` in front of the first, and the
\* blocks come after the known fields and before stack:.
C13_HeadersStartLines ==
    AggregateRendered =>
      /\ \A k \in 1..Len(heap[3].items) :
           /\ At(ret.out.s, "errors." \o NumStr(k - 1) \o ":") # {}
           /\ \A i \in At(ret.out.s, "errors." \o NumStr(k - 1) \o ":") :
                i = 1 \/ ret.out.s[i - 1] = "\n"
      /\ \A i \in At(ret.out.s, "errors.0:") :
           /\ \A j \in At(ret.out.s, "stack:") : i < j
           /\ \A name \in {"name", "code", "message"} :
                \A j \in 1..Len(ret.out.s) :
                  (KeyAt(ret.out.s, j) = name /\ ~(\E m \in At(ret.out.s, "errors.0:") : m < j))
                    => j < i

\* The first header came out on the line of the field label: `errors: errors.0:`.
C13_LabelBeforeHeader ==
    /\ AggregateRendered
    /\ \E i \in At(ret.out.s, "errors.0:") :
         i > 2 /\ ret.out.s[i - 1] = ": " /\ ret.out.s[i - 2] = "errors"

\* The detail of the BaseError at address e.
DetailRef(h, e) == PropOf(h[e], "detail").val

\* Whether the object v holds a string under name, in a data property.
HoldsString(h, v, name) ==
    /\ IsObj(v)
    /\ name \in PropNames(h[v.n])
    /\ PropOf(h[v.n], name).get = "data"
    /\ PropOf(h[v.n], name).val.t = "string"

\* C14: ensureErrorLike(v) returns v itself when v is a wrapper, v.detail
\* when v is a BaseError, and else a new wrapper with the fields
\* createErrorLike copies from v; the result satisfies isErrorLike and
\* ensureErrorLike of the result is the result.
C14_EnsureResult ==
    (ret.op = "ensureErrorLike" /\ ~ret.ex) =>
      /\ isErrorLike(heap, ret.out)
      /\ ensureErrorLike(heap, ret.out) = [heap |-> heap, v |-> ret.out, ex |-> FALSE]
      /\ IF IsObj(ret.arg) /\ heap[ret.arg.n].kind = "wrapper"
         THEN ret.out = ret.arg /\ Len(heap) = ret.before
         ELSE IF IsObj(ret.arg) /\ heap[ret.arg.n].kind = "base"
         THEN ret.out = DetailRef(heap, ret.arg.n) /\ Len(heap) = ret.before
         ELSE /\ ret.out = Ref(Len(heap)) /\ Len(heap) = ret.before + 1
              /\ IF IsObj(ret.arg)
                 THEN [i \in 1..Len(heap[ret.out.n].props) |-> heap[ret.out.n].props[i].name]
                        = ObjectKeys(heap, ret.arg)
                 ELSE heap[ret.out.n].props = Fallback(ret.arg).props

\* ensureErrorLike was handed a BaseError and returned its detail.
C14_DetailOfBaseReturned ==
    /\ ret.op = "ensureErrorLike" /\ ~ret.ex
    /\ IsObj(ret.arg) /\ heap[ret.arg.n].kind = "base"
    /\ ret.out = DetailRef(heap, ret.arg.n)
    /\ ret.out # ret.arg

C16_Constructed ==
    [][/\ (ret'.op = "BaseError" /\ ~ret'.ex) =>
            /\ isErrorLike(heap', DetailRef(heap', ret'.out.n))
            /\ isErrorLike(heap, ret'.arg) => DetailRef(heap', ret'.out.n) = ret'.arg
            /\ \A f \in {"name", "stack"} :
                 /\ HoldsString(heap', DetailRef(heap', ret'.out.n), f)
                 /\ HoldsString(heap, ret'.arg, f) =>
                      PropOf(heap'[DetailRef(heap', ret'.out.n).n], f).val
                        = PropOf(heap[ret'.arg.n], f).val
            /\ ~HoldsString(heap, ret'.arg, "name") =>
                 PropOf(heap'[DetailRef(heap', ret'.out.n).n], "name").val = ConstructorName
            /\ ~HoldsString(heap, ret'.arg, "stack") =>
                 PropOf(heap'[DetailRef(heap', ret'.out.n).n], "stack").val
                   = PropOf(heap'[ret'.out.n], "stack").val
       /\ (ret'.op = "toString" /\ heap'[ret'.arg.n].kind = "base") =>
            /\ ret'.ex = CallToString(heap', DetailRef(heap', ret'.arg.n), 1).ex
            /\ ~ret'.ex => ret'.out = CallToString(heap', DetailRef(heap', ret'.arg.n), 1).v
       /\ (ret'.op = "toJSON" /\ heap'[ret'.arg.n].kind = "base") =>
            /\ ret'.ex = CallToJSON(heap', DetailRef(heap', ret'.arg.n), 1).ex
            /\ ~ret'.ex => ret'.out = CallToJSON(heap', DetailRef(heap', ret'.arg.n), 1).v
      ]_vars

\* A BaseError was constructed from a plain detail that has neither name nor
\* stack: its detail holds the constructor's name and the error's stack.
C16_NameAndStackFilled ==
    /\ ret.op = "BaseError" /\ ~ret.ex
    /\ IsObj(ret.arg) /\ heap[ret.arg.n].kind = "plain"
    /\ PropNames(heap[ret.arg.n]) \cap {"name", "stack"} = {}
    /\ PropOf(heap[DetailRef(heap, ret.out.n).n], "name").val = ConstructorName
    /\ PropOf(heap[DetailRef(heap, ret.out.n).n], "stack").val
         = PropOf(heap[ret.out.n], "stack").val

\* What an object holds under name in a data property; Absent when it has
\* no such property or a getter that raises.
Held(o, name) ==
    IF name \in PropNames(o) /\ PropOf(o, name).get = "data" THEN PropOf(o, name).val
    ELSE Absent

\* A non-empty string or a safe integer.
ValidCode(v) == (v.t = "string" /\ v.s # <<>>) \/ (v.t = "number" /\ v.s = <<>>)

\* The object without the property name.
Without(o, name) == [o EXCEPT !.props = SelectSeq(@, LAMBDA p : p.name # name)]

\* The entries of a mapping but the one of key k.
Drop(entries, k) == SelectSeq(entries, LAMBDA e : e.k # k)

\* The detail of SpecJson was rendered to JSON.
DetailToJson ==
    /\ ret.op \in {"errorDetailToJsonLike", "errorToJsonLike"}
    /\ ret.arg = Ref(1) /\ ~ret.ex

\* C17: the JSON rendering of a detail has the key code exactly when the
\* detail's code is a non-empty string or a safe integer, and then it holds
\* that value as it is; any other code is left out, and the other keys are
\* what they are without it.
C17_CodeKey ==
    DetailToJson =>
      /\ HasKey(ret.out.kids, "code") <=> ValidCode(Held(heap[1], "code"))
      /\ HasKey(ret.out.kids, "code") =>
           KeyVal(ret.out.kids, "code") = Held(heap[1], "code")
      /\ Drop(ret.out.kids, "code")
           = errorDetailToJsonLike([heap EXCEPT ![1] = Without(@, "code")], Ref(1)).v.kids

\* A detail whose code is an object was rendered: its message came out, its
\* code did not.
C17_ObjectCodeDropped ==
    /\ DetailToJson
    /\ Held(heap[1], "code") = Ref(2)
    /\ HasKey(ret.out.kids, "message")
    /\ ~HasKey(ret.out.kids, "code")

\* errorToJsonLike returned for a value that is defined, not null and no
\* object.
BareValueToJson ==
    /\ ret.op = "errorToJsonLike" /\ ~ret.ex
    /\ ret.arg.t \in {"string", "number", "boolean", "symbol", "function"}

KeptRaw(v) == v.t = "boolean" \/ IsFinite(v) \/ (v.t = "string" /\ v.s # <<>>)

Simple(o) ==
    /\ PropNames(o) \subseteq {"code", "name", "message", "level"}
    /\ \A i \in 1..Len(o.props) :
         /\ o.props[i].get = "data"
         /\ IF o.props[i].name = "code" THEN ValidCode(o.props[i].val)
            ELSE o.props[i].val.t = "string"

\* None of its fields is the empty string.
NoEmptyString(o) == \A i \in 1..Len(o.props) : o.props[i].val # Str("")

\* The entries are the fields of the object: the same keys, each once, with
\* the same values.
SameMapping(entries, o) ==
    /\ {entries[i].k : i \in 1..Len(entries)} = PropNames(o)
    /\ Len(entries) = Len(o.props)
    /\ \A i \in 1..Len(entries) : entries[i].v = PropOf(o, entries[i].k).val

\* The mapping errorDetailToJsonLike returned for the detail of SpecJson was
\* handed to errorToJsonLike.
Reserialized == ret.op = "errorToJsonLike" /\ ret.arg.t = "map" /\ ~ret.ex

\* C19 as stated: for a detail whose fields are a valid code and known
\* fields that hold strings, errorDetailToJsonLike(d) equals d, and
\* errorToJsonLike of that result is the same mapping.
C19_RoundTripAnyStrings ==
    /\ (ret.op = "errorDetailToJsonLike" /\ ret.arg = Ref(1) /\ ~ret.ex /\ Simple(heap[1])) =>
         SameMapping(ret.out.kids, heap[1])
    /\ (Reserialized /\ Simple(heap[1])) =>
         ret.out = ret.arg /\ SameMapping(ret.out.kids, heap[1])

\* C19: for a detail whose fields are a valid code and known fields that
\* hold non-empty strings, errorDetailToJsonLike(d) equals d, and
\* errorToJsonLike of that result is the same mapping.
C19_RoundTrip ==
    /\ (ret.op = "errorDetailToJsonLike" /\ ret.arg = Ref(1) /\ ~ret.ex
          /\ Simple(heap[1]) /\ NoEmptyString(heap[1])) =>
         SameMapping(ret.out.kids, heap[1])
    /\ (Reserialized /\ Simple(heap[1]) /\ NoEmptyString(heap[1])) =>
         ret.out = ret.arg /\ SameMapping(ret.out.kids, heap[1])

\* The rendering of { message: 'base error', code: 1 } went through
\* errorToJsonLike and came out as it was.
C19_Reserialized ==
    /\ Reserialized
    /\ heap[1].props = <<Prop("message", Str("base error")), Prop("code", Num(1))>>
    /\ ret.arg = Map(<<[k |-> "code", v |-> Num(1)], [k |-> "message", v |-> Str("base error")]>>)
    /\ ret.out = ret.arg

\* errorToJsonLike returned for the native error of SpecJson, whose toJSON
\* returns an object.
NativeWithJson ==
    /\ ret.op = "errorToJsonLike" /\ ret.arg = Ref(4) /\ ~ret.ex
    /\ Held(heap[4], "toJSON") \in {FunRef(2), FunRef(3)}

\* C20: when the toJSON() of a native error returns an object, the JSON
\* rendering of the error is a copy of the entries of that object, and none
\* of name, message, stack and cause is added to it.
C20_JsonObjectCopied ==
    NativeWithJson => SameMapping(ret.out.kids, heap[Held(heap[4], "toJSON").n])

\* The toJSON() of the error returned {} and the rendering holds the name,
\* the message and the stack of the error.
C20_EmptyJsonFieldsAdded ==
    /\ NativeWithJson
    /\ heap[Held(heap[4], "toJSON").n].props = <<>>
    /\ {ret.out.kids[i].k : i \in 1..Len(ret.out.kids)} = {"name", "message", "stack"}

\* The text holds the atoms of part one after the other.
Contains(text, part) ==
    \E i \in 0..(Len(text) - Len(part)) : SubSeq(text, i + 1, i + Len(part)) = part

\* A parent of SpecNative was rendered to a string and the native error it
\* holds as its cause has a stack that can be read and is not empty.
CauseWithStack ==
    /\ ret.op \in {"errorToString", "errorDetailToString"}
    /\ ret.arg = Ref(1) /\ ~ret.ex
    /\ Truthy(Held(heap[2], "stack"))

\* C21: when a native error with a readable, non-empty stack is rendered as
\* the cause of a detail or of another native error, the parent's text holds
\* cause: and on the next line stack: and then the stack, with no line of
\* name and message in between.
C21_CauseStartsWithStack ==
    CauseWithStack =>
      Contains(ret.out.s, <<"cause:", "\n", "stack:", "\n">> \o Held(heap[2], "stack").s)

\* The native error new Error('Root cause') was rendered as the cause of a
\* detail, and the line of its name and message stands between cause: and
\* stack:.
C21_MessageLineBeforeStack ==
    /\ CauseWithStack
    /\ heap[1].kind = "plain"
    /\ PropNames(heap[2]) = {"stack", "message"}
    /\ Contains(ret.out.s, <<"cause:", "\n", "Error", ": ", "Root cause", "\n", "stack:", "\n",
                             "Error: Root cause at root">>)

\* The native error of SpecNative was rendered to a string and its own
\* toString() raises or returns ''.
NativeUnreadable ==
    /\ ret.op = "errorToString" /\ ret.arg = Ref(2) /\ ~ret.ex
    /\ Held(heap[2], "toString") \in {Fun("throw"), Fun("empty")}

\* C30: when the toString() of a native error raises or returns '', the
\* string rendering of the error has no leading line for it: the text is
\* empty or starts with the header of a part that was read, and it does not
\* hold the text null.
C30_NoNullText ==
    NativeUnreadable =>
      /\ ~InSeq("null", ret.out.s)
      /\ ret.out.s # <<>> => ret.out.s[1] \in {"stack:", "message:", "name:", "cause:"}

\* The toString() of the error raised and the rendering starts with null.
C30_NullLine ==
    /\ NativeUnreadable
    /\ Held(heap[2], "toString") = Fun("throw")
    /\ Held(heap[2], "cause") = Absent
    /\ ret.out.s = <<"null", "\n", "stack:", "\n", "Error: Root cause at root">>

\* The detail of SpecNested was rendered to a string and its field custom
\* holds the object at address 2.
NestedRendered ==
    /\ ret.op \in {"errorToString", "errorDetailToString"}
    /\ ret.arg = Ref(1) /\ ~ret.ex
    /\ Held(heap[1], "custom") = Ref(2)

\* C22: in the string rendering of a detail an unknown field that holds an
\* object is rendered by the dispatch on that object under the visited set
\* of the call: the text holds the object's own rendering and not the text
\* [object Object], and it has no line for the field when the object was
\* visited already (it is the cause as well) or renders to nothing.
C22_NestedDispatched ==
    NestedRendered =>
      IF Held(heap[1], "cause") = Ref(2) \/ errorToString(heap, Ref(2)).v.s = <<>>
      THEN ~InSeq("custom", ret.out.s)
      ELSE /\ Contains(ret.out.s, errorToString(heap, Ref(2)).v.s)
           /\ ~InSeq("[object Object]", ret.out.s)

\* { code: 1, custom: { a: 1 } } was rendered as
\* 'code: 1\ncustom: [object Object]'.
C22_DefaultTextRendered ==
    /\ NestedRendered
    /\ heap[1].props = <<Prop("code", Num(1)), Prop("custom", Ref(2))>>
    /\ heap[2] = Obj("plain", <<Prop("a", Num(1))>>)
    /\ ret.out.s = <<"code", ": ", "1", "\n", "custom", ": ", "[object Object]">>

\* The names of the enumerable own properties of an object.
Enumerable(o) == {o.props[i].name : i \in {j \in 1..Len(o.props) : o.props[j].enum}}

\* The keys of a mapping.
KeysOf(m) == {m.kids[i].k : i \in 1..Len(m.kids)}

\* The detail of SpecHidden was rendered to JSON as a detail.
HiddenToJson ==
    /\ \/ ret.op = "errorDetailToJsonLike"
       \/ ret.op \in {"errorToJsonLike", "toJSON"} /\ heap[1].kind # "error"
    /\ ret.arg = Ref(1) /\ ~ret.ex

EntryOnPrimitive ==
    /\ ret.op \in {"nativeErrorToJsonLike", "errorDetailToJsonLike"}
    /\ ret.arg \in EntryPrims

\* C24: nativeErrorToJsonLike(v) and errorDetailToJsonLike(v) raise for
\* every value v that is no object.
C24_PrimitivesRejected == EntryOnPrimitive => ret.ex

\* nativeErrorToJsonLike(true) returned { __value: true }.
C24_NativeReturnsMapping ==
    /\ ret.op = "nativeErrorToJsonLike" /\ ret.arg = Bool(TRUE) /\ ~ret.ex
    /\ ret.out = Map(<<[k |-> "__value", v |-> Bool(TRUE)]>>)


\* W, which holds the collection C, was rendered to a string.
CycleThroughCollection ==
    /\ ret.op \in {"errorToString", "errorDetailToString"}
    /\ ret.arg = Ref(1)

\* The objects of a set of addresses that are no collections.
DetailsOf(h, S) == {a \in S : h[a].kind # "collection"}

\* C25: one visited set serves every descent of a top-level call, those
\* into the elements of a collection included: a rendering of W enters a
\* renderer at most once per wrapper of the graph, plus one, and a wrapper
\* that is the cause of W is not rendered a second time as the cause of an
\* element of W's collection.
C25_OneVisitedSet ==
    CycleThroughCollection =>
      /\ ~ret.ex
      /\ ret.n <= Cardinality(DetailsOf(heap, Graph(heap, {1}))) + 1
      /\ Holds(heap, 1, "cause", 4) => Cardinality(At(ret.out.s, "MyLib.Error3")) <= 1

\* W.cause = Y, W.errors = C, C[0] = X and X.cause = Y: the string
\* rendering of W holds the fields of Y under W's cause and once more under
\* the cause of errors.0.
C25_CauseRenderedPerElement ==
    /\ CycleThroughCollection
    /\ ret.op = "errorToString"
    /\ Holds(heap, 1, "cause", 4)
    /\ Holds(heap, 1, "errors", 2)
    /\ heap[2].items = <<Ref(3)>>
    /\ Holds(heap, 3, "cause", 4)
    /\ Cardinality(At(ret.out.s, "MyLib.Error3")) = 2
    /\ Cardinality(At(ret.out.s, "cause:")) = 2

\* The detail of SpecShared was rendered to JSON.
SharedToJson ==
    /\ ret.op \in {"errorToJsonLike", "errorDetailToJsonLike", "toJSON"}
    /\ ret.arg = Ref(1) /\ ~ret.ex

\* The fields of the detail that hold values, in the order the JSON renderer
\* reads them: the remaining fields, then cause.
SharedFields == <<"extra", "more", "cause">>

\* The objects visited before field i is read: those the fields before it
\* reach.
VisitedBefore(i) ==
    UNION {Graph(heap, {Held(heap[1], SharedFields[j]).n}) :
             j \in {k \in 1..(i - 1) : IsObj(Held(heap[1], SharedFields[k]))}}

C27_UnshiftKeepsOrder ==
    [][(ret'.op = "unshift" /\ ~ret'.ex) =>
         /\ heap'[ret'.arg.n].items
              = EnsureAll(heap, ret'.items, <<>>).vs \o heap[ret'.arg.n].items
         /\ ret'.out = Num(Len(heap[ret'.arg.n].items) + Len(ret'.items))
      ]_vars

\* unshift(w, 'raw') on an empty collection left the wrapper made for 'raw'
\* in front of w.
C27_UnshiftReversed ==
    /\ ret.op = "unshift" /\ ~ret.ex
    /\ ret.items = <<Ref(2), Str("raw")>>
    /\ ret.out = Num(2)
    /\ heap[ret.arg.n].items[2] = Ref(2)
    /\ heap[ret.arg.n].items[1].n = Len(heap)
    /\ PropOf(heap[Len(heap)], "cause").val = Str("raw")

\* C28: splice(start) removes every element from index start to the end,
\* leaves the elements before start as they were, and returns the removed
\* ones in order as a new collection with the prefix of the receiver.
C28_SpliceToEnd ==
    [][(ret'.op = "splice(start)" /\ ~ret'.ex) =>
         /\ heap'[ret'.arg.n].items
              = SubSeq(heap[ret'.arg.n].items, 1,
                       SpliceStart(Len(heap[ret'.arg.n].items), ret'.start))
         /\ ret'.out.n \in Colls(heap') \ Colls(heap)
         /\ heap'[ret'.out.n].items
              = SubSeq(heap[ret'.arg.n].items,
                       SpliceStart(Len(heap[ret'.arg.n].items), ret'.start) + 1,
                       Len(heap[ret'.arg.n].items))
         /\ heap'[ret'.out.n].prefix = heap[ret'.arg.n].prefix
      ]_vars

\* splice(0) on a collection of three elements returned an empty collection
\* and left the three in place.
C28_NothingRemoved ==
    /\ ret.op = "splice(start)" /\ ~ret.ex
    /\ ret.start = 0
    /\ Len(heap[ret.arg.n].items) = 3
    /\ heap[ret.out.n].items = <<>>

\* C29 as stated: createErrorLike leaves every object of the caller as it
\* was, whatever captureStack is; a captured stack is on the wrapper only.
C29_InputUnchanged ==
    [][ret'.op = "createErrorLike" =>
         \A a \in Addrs(heap) : heap'[a] = heap[a]
      ]_vars

\* C29: createErrorLike leaves the detail passed in unchanged when
\* captureStack is not set. With captureStack set and detail an object, the
\* stack is captured on detail itself: its stack becomes the captured one
\* (added when it had none, left alone when it is an accessor), its other
\* fields and every other object stay as they were, and the wrapper, a new
\* object, holds the same stack as detail does after the call.
C29_StackCapturedOnDetail ==
    [][ret'.op = "createErrorLike" =>
         /\ \A a \in Addrs(heap) :
              ~(ret'.flag /\ IsObj(ret'.arg) /\ ret'.arg.n = a) => heap'[a] = heap[a]
         /\ (ret'.flag /\ IsObj(ret'.arg)) =>
              /\ heap'[ret'.arg.n].kind = heap[ret'.arg.n].kind
              /\ PropNames(heap'[ret'.arg.n]) = PropNames(heap[ret'.arg.n]) \cup {"stack"}
              /\ \A name \in PropNames(heap[ret'.arg.n]) \ {"stack"} :
                   PropOf(heap'[ret'.arg.n], name) = PropOf(heap[ret'.arg.n], name)
              /\ Held(heap'[ret'.arg.n], "stack")
                   = IF "stack" \in PropNames(heap[ret'.arg.n])
                        /\ Held(heap[ret'.arg.n], "stack") = Absent
                     THEN Absent ELSE CapturedStack
              /\ ~ret'.ex =>
                   /\ ret'.out.n \notin Addrs(heap)
                   /\ Held(heap'[ret'.out.n], "stack") = Held(heap'[ret'.arg.n], "stack")
      ]_vars

\* createErrorLike(detail, true) on a detail {name, message} returned a new
\* wrapper with the captured stack and left the same stack on detail.
C29_DetailHoldsCapturedStack ==
    /\ ret.op = "createErrorLike" /\ ret.flag /\ ~ret.ex
    /\ ret.arg = Ref(1)
    /\ ret.out.n = 2
    /\ [i \in 1..Len(heap[1].props) |-> heap[1].props[i].name] = <<"name", "message", "stack">>
    /\ Held(heap[1], "stack") = CapturedStack
    /\ Held(heap[2], "stack") = CapturedStack

=============================================================================
